---- MODULE Spec2Model ----
(***************************************************************************)
(* The text chunker of src/app/api/lib (chunkText, splitParagraphByWords,  *)
(* splitLongWord) as a state machine.  One invocation of chunkText is a    *)
(* frame `inv` holding the arguments, the locals of the three functions    *)
(* and the position in the code; every loop iteration, call and return is  *)
(* one step.  A string is a sequence of characters and string lengths are  *)
(* sequence lengths.                                                       *)
(*                                                                         *)
(* Around it: chunkText invocations interleaved step by step               *)
(* (`invocations`), and the three route handlers of src/app/api (datasets  *)
(* GET, import POST, chat POST) serving one request at a time: `req` is    *)
(* the frame of the request being served, `users` the app_users table and  *)
(* `effects` the calls the request has made to the database, the embedding *)
(* service and the completion service.                                     *)
(***************************************************************************)
EXTENDS Integers, Sequences, FiniteSets

VARIABLES inv, invocations, req, users, effects, page, pool, procs, db

vars == <<inv, invocations, req, users, effects, page, pool, procs, db>>

(***************************************************************************)
(* Bounds of the model.                                                    *)
(***************************************************************************)
\* longest input text
MaxTextLen == 5
\* largest maxCharLength passed to chunkText
MaxLimit == 5
\* longest input text of the word-packing specification
MaxPackTextLen == 6
\* longest input text and largest limit of the interleaved invocations
MaxParTextLen == 2
MaxParLimit == 2
\* longest content sent to the import handler
MaxContentLen == 3
\* the limit the import handler passes to chunkText: the source value of
\* MAX_EMBEDDING_CHUNK_CHAR_LENGTH is 4000, scaled to the contents above so
\* that a content gives several chunks
ChunkLimit == 2

(***************************************************************************)
(* Characters.  SP and NL are the two separators the code splits on; TAB   *)
(* is a white-space character String.prototype.trim removes but no split   *)
(* sees; "a" and "b" are ordinary characters.                              *)
(***************************************************************************)
SP == " "
NL == "\n"
TAB == "\t"
Chars == {"a", "b", SP, NL, TAB}

\* the characters String.prototype.trim strips
IsWhiteSpace(c) == c \in {SP, NL, TAB}

Strings(n) == UNION {[1..k -> Chars] : k \in 0..n}

Texts == Strings(MaxTextLen)

\* maxCharLength is any integer: negative, zero or positive
Limits == (0 - 1)..MaxLimit

(***************************************************************************)
(* String primitives of the JavaScript runtime, as the code uses them.     *)
(***************************************************************************)
Min(a, b) == IF a <= b THEN a ELSE b
Max(a, b) == IF a >= b THEN a ELSE b

\* String.prototype.substring(start, end): both indices clamped to
\* 0..length and swapped when start > end
Substring(str, start, end) ==
    LET lo == Max(0, Min(start, Len(str)))
        hi == Max(0, Min(end, Len(str)))
    IN  SubSeq(str, Min(lo, hi) + 1, Max(lo, hi))

\* String.prototype.substring(start): to the end of the string
SubstringFrom(str, start) == Substring(str, start, Len(str))

\* String.prototype.split(sep) for a one-character separator: k separators
\* give k + 1 pieces, empty pieces included
RECURSIVE Split(_, _)
Split(str, sep) ==
    IF \A i \in 1..Len(str) : str[i] # sep
    THEN <<str>>
    ELSE LET i == CHOOSE k \in 1..Len(str) :
                      str[k] = sep /\ \A j \in 1..(k - 1) : str[j] # sep
         IN  <<SubSeq(str, 1, i - 1)>> \o Split(SubSeq(str, i + 1, Len(str)), sep)

\* String.prototype.trim: white space removed at both ends
RECURSIVE TrimStart(_)
TrimStart(str) ==
    IF str # <<>> /\ IsWhiteSpace(Head(str)) THEN TrimStart(Tail(str)) ELSE str

RECURSIVE TrimEnd(_)
TrimEnd(str) ==
    IF str # <<>> /\ IsWhiteSpace(str[Len(str)])
    THEN TrimEnd(SubSeq(str, 1, Len(str) - 1))
    ELSE str

Trim(str) == TrimEnd(TrimStart(str))

(***************************************************************************)
(* The frame of one chunkText invocation.                                  *)
(***************************************************************************)
Frame(text, maxCharLength) ==
    [pc                    |-> "chunkText",
     text                  |-> text,
     maxCharLength         |-> maxCharLength,
     paragraphs            |-> <<>>,
     currentParagraphChunk |-> <<>>,
     allChunks             |-> <<>>,
     callSite              |-> "none",
     paragraph             |-> <<>>,
     words                 |-> <<>>,
     currentWordChunk      |-> <<>>,
     wordChunks            |-> <<>>,
     word                  |-> <<>>,
     currentPart           |-> <<>>,
     parts                 |-> <<>>,
     ret                   |-> <<>>,
     result                |-> <<>>]

(***************************************************************************)
(* chunkText                                                               *)
(***************************************************************************)
\* variant: the final filter left out
NonBlankChunksKeepAll(chunks) == chunks

\* the final filter: chunks that trim to the empty string are dropped
NonBlankChunks(chunks) == SelectSeq(chunks, LAMBDA chunk : Trim(chunk) # <<>>)

\* variant: a degenerate call hands the text back as its only chunk
ChunkTextEntryEchoesText(s) ==
    IF s.text = <<>> \/ s.maxCharLength <= 0
    THEN [s EXCEPT !.pc = "done", !.result = <<s.text>>]
    ELSE [s EXCEPT !.pc = "forParagraph",
                   !.paragraphs = Split(s.text, NL),
                   !.currentParagraphChunk = <<>>]

\* entry: the guard, then text.split("\n")
ChunkTextEntry(s) ==
    IF s.text = <<>> \/ s.maxCharLength <= 0
    THEN [s EXCEPT !.pc = "done", !.result = <<>>]
    ELSE [s EXCEPT !.pc = "forParagraph",
                   !.paragraphs = Split(s.text, NL),
                   !.currentParagraphChunk = <<>>]

\* variant: a blank line adds its line break to an empty accumulator too
BlankParagraphStartsChunk(s) ==
    LET cur == s.currentParagraphChunk
        t   == [s EXCEPT !.paragraphs = Tail(@)]
    IN  IF Len(cur) + 1 <= s.maxCharLength
        THEN [t EXCEPT !.currentParagraphChunk = cur \o <<NL>>]
        ELSE [t EXCEPT !.allChunks = IF Len(cur) > 0 THEN @ \o <<cur>> ELSE @,
                       !.currentParagraphChunk = <<>>]

\* variant: a blank line is merged like any other paragraph
BlankParagraphCopiesLine(s) ==
    LET cur       == s.currentParagraphChunk
        paragraph == Head(s.paragraphs)
        t         == [s EXCEPT !.paragraphs = Tail(@)]
    IN  IF Len(cur) > 0
        THEN IF Len(cur) + 1 + Len(paragraph) <= s.maxCharLength
             THEN [t EXCEPT !.currentParagraphChunk =
                                cur \o <<NL>> \o paragraph]
             ELSE [t EXCEPT !.allChunks = @ \o <<cur>>,
                            !.currentParagraphChunk = <<>>]
        ELSE t

\* variant: a blank line after a line break adds nothing (blank lines
\* collapse to one)
BlankParagraphCollapses(s) ==
    LET cur == s.currentParagraphChunk
        t   == [s EXCEPT !.paragraphs = Tail(@)]
    IN  IF Len(cur) > 0
        THEN IF cur[Len(cur)] = NL
             THEN t
             ELSE IF Len(cur) + 1 <= s.maxCharLength
                  THEN [t EXCEPT !.currentParagraphChunk = cur \o <<NL>>]
                  ELSE [t EXCEPT !.allChunks = @ \o <<cur>>,
                                 !.currentParagraphChunk = <<>>]
        ELSE t

\* variant: a blank line always closes the pending chunk
BlankParagraphFlushes(s) ==
    LET cur == s.currentParagraphChunk
        t   == [s EXCEPT !.paragraphs = Tail(@)]
    IN  IF Len(cur) > 0
        THEN [t EXCEPT !.allChunks = @ \o <<cur>>,
                       !.currentParagraphChunk = <<>>]
        ELSE t

\* variant: the line break is appended without the length test
BlankParagraphNoCheck(s) ==
    LET cur == s.currentParagraphChunk
        t   == [s EXCEPT !.paragraphs = Tail(@)]
    IN  IF Len(cur) > 0
        THEN [t EXCEPT !.currentParagraphChunk = cur \o <<NL>>]
        ELSE t

\* loop body for a paragraph that trims to ""
BlankParagraph(s) ==
    LET cur == s.currentParagraphChunk
        t   == [s EXCEPT !.paragraphs = Tail(@)]
    IN  IF Len(cur) > 0
        THEN IF Len(cur) + 1 <= s.maxCharLength
             THEN [t EXCEPT !.currentParagraphChunk = cur \o <<NL>>]
             ELSE [t EXCEPT !.allChunks = @ \o <<cur>>,
                            !.currentParagraphChunk = <<>>]
        ELSE t

\* the call splitParagraphByWords(paragraph, maxCharLength) from `site`
CallSplitParagraphByWords(s, paragraph, site) ==
    [s EXCEPT !.pc = "splitParagraphByWords",
              !.paragraph = paragraph,
              !.callSite = site]

\* loop body for a non-blank paragraph met with an empty accumulator
FirstParagraph(s) ==
    LET paragraph == Head(s.paragraphs)
        t         == [s EXCEPT !.paragraphs = Tail(@)]
    IN  IF Len(paragraph) <= s.maxCharLength
        THEN [t EXCEPT !.currentParagraphChunk = paragraph]
        ELSE CallSplitParagraphByWords(t, paragraph, "empty")

\* variant: the merge test is strict
NextParagraphStrict(s) ==
    LET paragraph == Head(s.paragraphs)
        cur       == s.currentParagraphChunk
        t         == [s EXCEPT !.paragraphs = Tail(@)]
    IN  IF Len(cur) + 1 + Len(paragraph) < s.maxCharLength
        THEN [t EXCEPT !.currentParagraphChunk = cur \o <<NL>> \o paragraph]
        ELSE LET u == [t EXCEPT !.allChunks = @ \o <<cur>>]
             IN  IF Len(paragraph) <= s.maxCharLength
                 THEN [u EXCEPT !.currentParagraphChunk = paragraph]
                 ELSE CallSplitParagraphByWords(u, paragraph, "flushed")

\* variant: paragraphs are joined by a space instead of a line break
NextParagraphJoinsWithSpace(s) ==
    LET paragraph == Head(s.paragraphs)
        cur       == s.currentParagraphChunk
        t         == [s EXCEPT !.paragraphs = Tail(@)]
    IN  IF Len(cur) + 1 + Len(paragraph) <= s.maxCharLength
        THEN [t EXCEPT !.currentParagraphChunk = cur \o <<SP>> \o paragraph]
        ELSE LET u == [t EXCEPT !.allChunks = @ \o <<cur>>]
             IN  IF Len(paragraph) <= s.maxCharLength
                 THEN [u EXCEPT !.currentParagraphChunk = paragraph]
                 ELSE CallSplitParagraphByWords(u, paragraph, "flushed")

\* loop body for a non-blank paragraph met with a non-empty accumulator
NextParagraph(s) ==
    LET paragraph == Head(s.paragraphs)
        cur       == s.currentParagraphChunk
        t         == [s EXCEPT !.paragraphs = Tail(@)]
    IN  IF Len(cur) + 1 + Len(paragraph) <= s.maxCharLength
        THEN [t EXCEPT !.currentParagraphChunk = cur \o <<NL>> \o paragraph]
        ELSE LET u == [t EXCEPT !.allChunks = @ \o <<cur>>]
             IN  IF Len(paragraph) <= s.maxCharLength
                 THEN [u EXCEPT !.currentParagraphChunk = paragraph]
                 ELSE CallSplitParagraphByWords(u, paragraph, "flushed")

\* variant: the last piece is kept as the accumulator instead of pushed
PushWordChunksKeepsLastPiece(s) ==
    [s EXCEPT !.pc = "forParagraph",
              !.allChunks = @ \o SubSeq(s.ret, 1, Len(s.ret) - 1),
              !.currentParagraphChunk =
                  IF s.ret = <<>> THEN <<>> ELSE s.ret[Len(s.ret)],
              !.ret = <<>>,
              !.paragraph = <<>>,
              !.callSite = "none"]

\* allChunks.push(...) of the pieces splitParagraphByWords returned; the
\* call after a flush also resets the accumulator
PushWordChunks(s) ==
    [s EXCEPT !.pc = "forParagraph",
              !.allChunks = @ \o s.ret,
              !.currentParagraphChunk =
                  IF s.callSite = "flushed" THEN <<>> ELSE @,
              !.ret = <<>>,
              !.paragraph = <<>>,
              !.callSite = "none"]

\* after the loop: the last flush, the filter and the return
ChunkTextReturn(s) ==
    LET all == IF Len(s.currentParagraphChunk) > 0
               THEN s.allChunks \o <<s.currentParagraphChunk>>
               ELSE s.allChunks
    IN  [s EXCEPT !.pc = "done",
                  !.result = NonBlankChunks(all),
                  !.allChunks = <<>>,
                  !.currentParagraphChunk = <<>>]

(***************************************************************************)
(* splitParagraphByWords                                                   *)
(***************************************************************************)
\* entry: the guard, then paragraph.split(" ")
SplitParagraphByWordsEntry(s) ==
    IF s.paragraph = <<>> \/ s.maxCharLength <= 0
    THEN [s EXCEPT !.pc = "pushWordChunks", !.ret = <<>>]
    ELSE [s EXCEPT !.pc = "forWord",
                   !.words = Split(s.paragraph, SP),
                   !.currentWordChunk = <<>>,
                   !.wordChunks = <<>>]

\* variant: an empty word is appended like any other word
EmptyWordAppended(s) ==
    LET cur == s.currentWordChunk
        t   == [s EXCEPT !.words = Tail(@)]
    IN  IF Len(cur) > 0 /\ Len(cur) + 1 <= s.maxCharLength
        THEN [t EXCEPT !.currentWordChunk = cur \o <<SP>>]
        ELSE t

\* loop body for an empty word: continue
EmptyWord(s) == [s EXCEPT !.words = Tail(@)]

\* variant: the pending group is reset without being pushed
LongWordDropsGroup(s) ==
    [s EXCEPT !.pc = "splitLongWord",
              !.words = Tail(@),
              !.word = Head(s.words),
              !.currentWordChunk = <<>>]

\* loop body for a word longer than maxCharLength: flush the group and
\* call splitLongWord(word, maxCharLength)
LongWord(s) ==
    LET cur == s.currentWordChunk
    IN  [s EXCEPT !.pc = "splitLongWord",
                  !.words = Tail(@),
                  !.word = Head(s.words),
                  !.wordChunks = IF Len(cur) > 0 THEN @ \o <<cur>> ELSE @,
                  !.currentWordChunk = <<>>]

\* variant: the last part becomes the pending group instead of a chunk
PushPartsKeepsLastPart(s) ==
    [s EXCEPT !.pc = "forWord",
              !.wordChunks = @ \o SubSeq(s.ret, 1, Len(s.ret) - 1),
              !.currentWordChunk =
                  IF s.ret = <<>> THEN @ ELSE s.ret[Len(s.ret)],
              !.ret = <<>>,
              !.word = <<>>]

\* wordChunks.push(...) of the parts splitLongWord returned
PushParts(s) ==
    [s EXCEPT !.pc = "forWord",
              !.wordChunks = @ \o s.ret,
              !.ret = <<>>,
              !.word = <<>>]

\* variant: the packing test is strict
PackWordStrict(s) ==
    LET word           == Head(s.words)
        cur            == s.currentWordChunk
        potentialSpace == IF Len(cur) > 0 THEN <<SP>> ELSE <<>>
        t              == [s EXCEPT !.words = Tail(@)]
    IN  IF Len(cur) + Len(potentialSpace) + Len(word) < s.maxCharLength
        THEN [t EXCEPT !.currentWordChunk = cur \o potentialSpace \o word]
        ELSE [t EXCEPT !.wordChunks = IF Len(cur) > 0 THEN @ \o <<cur>> ELSE @,
                       !.currentWordChunk = word]

\* loop body for a non-empty word of at most maxCharLength characters
PackWord(s) ==
    LET word           == Head(s.words)
        cur            == s.currentWordChunk
        potentialSpace == IF Len(cur) > 0 THEN <<SP>> ELSE <<>>
        t              == [s EXCEPT !.words = Tail(@)]
    IN  IF Len(cur) + Len(potentialSpace) + Len(word) <= s.maxCharLength
        THEN [t EXCEPT !.currentWordChunk = cur \o potentialSpace \o word]
        ELSE [t EXCEPT !.wordChunks = IF Len(cur) > 0 THEN @ \o <<cur>> ELSE @,
                       !.currentWordChunk = word]

\* after the loop: the last flush and the return
SplitParagraphByWordsReturn(s) ==
    LET cur == s.currentWordChunk
    IN  [s EXCEPT !.pc = "pushWordChunks",
                  !.ret = IF Len(cur) > 0 THEN s.wordChunks \o <<cur>>
                          ELSE s.wordChunks,
                  !.wordChunks = <<>>,
                  !.currentWordChunk = <<>>]

(***************************************************************************)
(* splitLongWord                                                           *)
(***************************************************************************)
\* entry: the guard, then currentPart = word
SplitLongWordEntry(s) ==
    IF s.word = <<>> \/ s.maxCharLength <= 0
    THEN [s EXCEPT !.pc = "pushParts", !.ret = <<>>]
    ELSE [s EXCEPT !.pc = "whileCurrentPart",
                   !.currentPart = s.word,
                   !.parts = <<>>]

\* variant: the remainder starts one character too far
SliceStepSkipsChar(s) ==
    [s EXCEPT !.parts = @ \o <<Substring(s.currentPart, 0, s.maxCharLength)>>,
              !.currentPart = SubstringFrom(s.currentPart, s.maxCharLength + 1)]

\* variant: the result of substring is not assigned back to currentPart
SliceStepKeepsCurrentPart(s) ==
    [s EXCEPT !.parts = @ \o <<Substring(s.currentPart, 0, s.maxCharLength)>>]

\* body of the while loop: one slice of maxCharLength characters
SliceStep(s) ==
    [s EXCEPT !.parts = @ \o <<Substring(s.currentPart, 0, s.maxCharLength)>>,
              !.currentPart = SubstringFrom(s.currentPart, s.maxCharLength)]

\* variant: the remainder is not pushed
SplitLongWordReturnDropsRemainder(s) ==
    [s EXCEPT !.pc = "pushParts",
              !.ret = s.parts,
              !.parts = <<>>,
              !.currentPart = <<>>]

\* after the loop: the remainder, if any, and the return
SplitLongWordReturn(s) ==
    [s EXCEPT !.pc = "pushParts",
              !.ret = IF Len(s.currentPart) > 0
                      THEN s.parts \o <<s.currentPart>>
                      ELSE s.parts,
              !.parts = <<>>,
              !.currentPart = <<>>]

(***************************************************************************)
(* The state machine.                                                      *)
(***************************************************************************)
\* a frame that has returned, for the specifications that run no invocation
\* in `inv`
Returned == [Frame(<<>>, 0) EXCEPT !.pc = "done"]

\* no request is being served
NoRequest == [pc |-> "idle"]

\* one invocation and nothing else: no other invocation, no request, no
\* user, no call made
\* the chat page is not open
NoPage == [mounted |-> FALSE]

\* no pool has been created, no call uses the database, no table exists
NoPool == [max |-> 0]

NoDatabase ==
    /\ pool = NoPool
    /\ procs = <<>>
    /\ db = <<>>

ChunkerOnly ==
    /\ invocations = <<>>
    /\ req = NoRequest
    /\ users = <<>>
    /\ effects = <<>>
    /\ page = NoPage
    /\ NoDatabase

Init ==
    /\ inv \in {Frame(text, limit) : text \in Texts, limit \in Limits}
    /\ ChunkerOnly

AtParagraph(s) == s.pc = "forParagraph" /\ s.paragraphs # <<>>
AtWord(s) == s.pc = "forWord" /\ s.words # <<>>

DoChunkTextEntry ==
    /\ inv.pc = "chunkText"
    /\ inv' = ChunkTextEntry(inv)
    /\ UNCHANGED <<invocations, req, users, effects, page, pool, procs, db>>

DoBlankParagraph ==
    /\ AtParagraph(inv)
    /\ Trim(Head(inv.paragraphs)) = <<>>
    /\ inv' = BlankParagraph(inv)
    /\ UNCHANGED <<invocations, req, users, effects, page, pool, procs, db>>

DoFirstParagraph ==
    /\ AtParagraph(inv)
    /\ Trim(Head(inv.paragraphs)) # <<>>
    /\ Len(inv.currentParagraphChunk) = 0
    /\ inv' = FirstParagraph(inv)
    /\ UNCHANGED <<invocations, req, users, effects, page, pool, procs, db>>

DoNextParagraph ==
    /\ AtParagraph(inv)
    /\ Trim(Head(inv.paragraphs)) # <<>>
    /\ Len(inv.currentParagraphChunk) # 0
    /\ inv' = NextParagraph(inv)
    /\ UNCHANGED <<invocations, req, users, effects, page, pool, procs, db>>

DoPushWordChunks ==
    /\ inv.pc = "pushWordChunks"
    /\ inv' = PushWordChunks(inv)
    /\ UNCHANGED <<invocations, req, users, effects, page, pool, procs, db>>

DoChunkTextReturn ==
    /\ inv.pc = "forParagraph"
    /\ inv.paragraphs = <<>>
    /\ inv' = ChunkTextReturn(inv)
    /\ UNCHANGED <<invocations, req, users, effects, page, pool, procs, db>>

DoSplitParagraphByWordsEntry ==
    /\ inv.pc = "splitParagraphByWords"
    /\ inv' = SplitParagraphByWordsEntry(inv)
    /\ UNCHANGED <<invocations, req, users, effects, page, pool, procs, db>>

DoEmptyWord ==
    /\ AtWord(inv)
    /\ Len(Head(inv.words)) = 0
    /\ inv' = EmptyWord(inv)
    /\ UNCHANGED <<invocations, req, users, effects, page, pool, procs, db>>

DoLongWord ==
    /\ AtWord(inv)
    /\ Len(Head(inv.words)) > inv.maxCharLength
    /\ inv' = LongWord(inv)
    /\ UNCHANGED <<invocations, req, users, effects, page, pool, procs, db>>

DoPushParts ==
    /\ inv.pc = "pushParts"
    /\ inv' = PushParts(inv)
    /\ UNCHANGED <<invocations, req, users, effects, page, pool, procs, db>>

DoPackWord ==
    /\ AtWord(inv)
    /\ Len(Head(inv.words)) # 0
    /\ Len(Head(inv.words)) <= inv.maxCharLength
    /\ inv' = PackWord(inv)
    /\ UNCHANGED <<invocations, req, users, effects, page, pool, procs, db>>

DoSplitParagraphByWordsReturn ==
    /\ inv.pc = "forWord"
    /\ inv.words = <<>>
    /\ inv' = SplitParagraphByWordsReturn(inv)
    /\ UNCHANGED <<invocations, req, users, effects, page, pool, procs, db>>

DoSplitLongWordEntry ==
    /\ inv.pc = "splitLongWord"
    /\ inv' = SplitLongWordEntry(inv)
    /\ UNCHANGED <<invocations, req, users, effects, page, pool, procs, db>>

DoSliceStep ==
    /\ inv.pc = "whileCurrentPart"
    /\ Len(inv.currentPart) > inv.maxCharLength
    /\ inv' = SliceStep(inv)
    /\ UNCHANGED <<invocations, req, users, effects, page, pool, procs, db>>

DoSplitLongWordReturn ==
    /\ inv.pc = "whileCurrentPart"
    /\ ~(Len(inv.currentPart) > inv.maxCharLength)
    /\ inv' = SplitLongWordReturn(inv)
    /\ UNCHANGED <<invocations, req, users, effects, page, pool, procs, db>>

Next ==
    \/ DoChunkTextEntry
    \/ DoBlankParagraph
    \/ DoFirstParagraph
    \/ DoNextParagraph
    \/ DoPushWordChunks
    \/ DoChunkTextReturn
    \/ DoSplitParagraphByWordsEntry
    \/ DoEmptyWord
    \/ DoLongWord
    \/ DoPushParts
    \/ DoPackWord
    \/ DoSplitParagraphByWordsReturn
    \/ DoSplitLongWordEntry
    \/ DoSliceStep
    \/ DoSplitLongWordReturn

Spec == Init /\ [][Next]_vars

\* the invocation is synchronous code: it runs until it returns
LiveSpec == Spec /\ WF_vars(Next)

(***************************************************************************)
(* The same machine on longer texts for the properties of word packing,    *)
(* which need a paragraph well over the limit: texts of up to             *)
(* MaxPackTextLen characters without tabs, cut at a positive limit.        *)
(***************************************************************************)
PackChars == {"a", "b", SP, NL}

PackTexts == UNION {[1..k -> PackChars] : k \in 0..MaxPackTextLen}

PackInit ==
    /\ inv \in {Frame(text, limit) : text \in PackTexts, limit \in 1..MaxLimit}
    /\ ChunkerOnly

PackSpec == PackInit /\ [][Next]_vars

(***************************************************************************)
(* One invocation as a function: StepOf is the step the code takes from a  *)
(* frame, the same case analysis as the actions above; Run follows the     *)
(* steps to the return; ChunkTextOf is the value chunkText returns.        *)
(***************************************************************************)
StepOf(s) ==
    CASE s.pc = "chunkText" -> ChunkTextEntry(s)
      [] AtParagraph(s) ->
            IF Trim(Head(s.paragraphs)) = <<>> THEN BlankParagraph(s)
            ELSE IF Len(s.currentParagraphChunk) = 0 THEN FirstParagraph(s)
            ELSE NextParagraph(s)
      [] s.pc = "forParagraph" /\ s.paragraphs = <<>> -> ChunkTextReturn(s)
      [] s.pc = "pushWordChunks" -> PushWordChunks(s)
      [] s.pc = "splitParagraphByWords" -> SplitParagraphByWordsEntry(s)
      [] AtWord(s) ->
            IF Len(Head(s.words)) = 0 THEN EmptyWord(s)
            ELSE IF Len(Head(s.words)) > s.maxCharLength THEN LongWord(s)
            ELSE PackWord(s)
      [] s.pc = "forWord" /\ s.words = <<>> -> SplitParagraphByWordsReturn(s)
      [] s.pc = "pushParts" -> PushParts(s)
      [] s.pc = "splitLongWord" -> SplitLongWordEntry(s)
      [] s.pc = "whileCurrentPart" ->
            IF Len(s.currentPart) > s.maxCharLength THEN SliceStep(s)
            ELSE SplitLongWordReturn(s)
      [] OTHER -> s

RECURSIVE Run(_)
Run(s) == IF s.pc = "done" THEN s ELSE Run(StepOf(s))

ChunkTextOf(text, maxCharLength) == Run(Frame(text, maxCharLength)).result

(***************************************************************************)
(* Two chunkText invocations interleaved step by step.  The locals of      *)
(* chunkText, splitParagraphByWords and splitLongWord are declared inside  *)
(* the functions (const, let) and the module has no variable besides the   *)
(* constant MAX_EMBEDDING_CHUNK_CHAR_LENGTH, so a step of one invocation   *)
(* reads and writes the frame of that invocation only.                     *)
(***************************************************************************)
InvocationIds == {1, 2}

ParChars == {"a", SP, NL}

ParTexts == UNION {[1..k -> ParChars] : k \in 0..MaxParTextLen}

\* variant: currentParagraphChunk is one variable of the module, written by
\* every invocation
StepInvocationSharedAccumulator(cs, i) ==
    LET t == StepOf(cs[i])
    IN  [j \in DOMAIN cs |->
            IF j = i THEN t
            ELSE [cs[j] EXCEPT
                     !.currentParagraphChunk = t.currentParagraphChunk]]

StepInvocation(cs, i) == [cs EXCEPT ![i] = StepOf(cs[i])]

ParInit ==
    /\ invocations \in [InvocationIds ->
           {Frame(text, limit) : text \in ParTexts, limit \in 1..MaxParLimit}]
    /\ inv = Returned
    /\ req = NoRequest
    /\ users = <<>>
    /\ effects = <<>>
    /\ page = NoPage
    /\ NoDatabase

DoStepInvocation ==
    \E i \in InvocationIds :
        /\ invocations[i].pc # "done"
        /\ invocations' = StepInvocation(invocations, i)
        /\ UNCHANGED <<inv, req, users, effects, page, pool, procs, db>>

ParNext == DoStepInvocation

ParSpec == ParInit /\ [][ParNext]_vars

(***************************************************************************)
(* The route handlers: datasets GET, import POST and chat POST.  Every     *)
(* await of a handler is one step; what the database, the embedding        *)
(* service and the completion service answer is chosen by the step.        *)
(***************************************************************************)
\* null or undefined where the code expects a string
Null == <<"null">>

UserIds == {"u1", "u2"}

\* authObject.userId of a request without a session
NoUserId == ""

\* the primary email address Clerk reports; "" when there is none
Emails == {"", "e1"}

AccessLevels == {"pending_approval", "admin"}

\* app_users: at most one row for a clerk_user_id
Rows == [access_level : AccessLevels, email : Emails]

Tables == UNION {[ids -> Rows] : ids \in SUBSET UserIds}

Handlers == {"GET", "import", "chat"}

\* the characters /^[a-zA-Z0-9_]+$/ accepts
NameChars == {"d", "_"}

MaxDatasetNameLength == 50

TooLongName == [k \in 1..(MaxDatasetNameLength + 1) |-> "d"]

DatasetNames == {Null, <<>>, <<SP>>, <<"d">>, <<"d", "_">>, <<"d", "-">>,
                 TooLongName}

\* variant: the length of the name is not looked at
IsInvalidNameAnyLength(datasetName) ==
    ~(datasetName # <<>> /\ \A k \in 1..Len(datasetName) :
                                 datasetName[k] \in NameChars)

\* !/^[a-zA-Z0-9_]+$/.test(datasetName) || datasetName.length > 50
IsInvalidName(datasetName) ==
    \/ ~(datasetName # <<>> /\ \A k \in 1..Len(datasetName) :
                                   datasetName[k] \in NameChars)
    \/ Len(datasetName) > MaxDatasetNameLength

ContentChars == {"a", SP, NL, TAB}

Contents == UNION {[1..k -> ContentChars] : k \in 0..MaxContentLen}

\* the uploaded file: its lower-cased extension and its text
NoFile == [extension |-> "", content |-> Null]

Files == {NoFile, [extension |-> "pdf", content |-> <<"a">>]}
         \cup {[extension |-> "txt", content |-> c] : c \in Contents}

\* request.formData() of the import handler
ImportBodies ==
    {[parses |-> FALSE, datasetName |-> Null, file |-> NoFile, text |-> Null]}
    \cup [parses : {TRUE}, datasetName : DatasetNames, file : {NoFile},
          text : Contents \cup {Null}]
    \cup [parses : {TRUE}, datasetName : {Null, <<"d">>}, file : Files,
          text : {Null, <<"a">>}]

\* request.json() of the chat handler; history is a list, absent or null
ChatBodies ==
    {[parses |-> FALSE, query |-> Null, datasetName |-> Null,
      history |-> "absent"]}
    \cup [parses : {TRUE}, query : {Null, <<>>, <<SP>>, <<"a">>},
          datasetName : DatasetNames, history : {"absent", "list", "null"}]

Request(handler, userId, clerkUser, email) ==
    [handler   |-> handler,
     pc        |-> "auth",
     userId    |-> userId,
     clerkUser |-> clerkUser,
     email     |-> email,
     appUser   |-> [access_level |-> "", email |-> ""],
     created   |-> FALSE,
     datasetName      |-> Null,
     contentToProcess |-> Null,
     chunks           |-> <<>>,
     i                |-> 0,
     successfulEmbeddingsAndStorage |-> 0,
     failedOperations               |-> 0,
     query         |-> Null,
     history       |-> "absent",
     contextChunks |-> <<>>,
     llmAnswer     |-> <<>>,
     status |-> 0,
     error  |-> ""]

\* return NextResponse.json({ error: ... }, { status })
Respond(r, status, error) ==
    [r EXCEPT !.pc = "done", !.status = status, !.error = error]

\* one call made to the database or to a service, and whether it succeeded
Effect(op, arg, ok) == [op |-> op, arg |-> arg, ok |-> ok]

(***************************************************************************)
(* The authorization block, the same in the three handlers.                *)
(***************************************************************************)
\* variant: an existing row gets the default access level again
GetOrCreateAppUserUpserts(table, clerkUserId, email, defaultAccessLevel) ==
    LET new == [access_level |-> defaultAccessLevel, email |-> email]
    IN  [table   |-> [id \in DOMAIN table \cup {clerkUserId} |->
                         IF id = clerkUserId THEN new ELSE table[id]],
         row     |-> new,
         created |-> clerkUserId \notin DOMAIN table]

\* getOrCreateAppUser when its queries succeed: the table and the row after
GetOrCreateAppUser(table, clerkUserId, email, defaultAccessLevel) ==
    IF clerkUserId \in DOMAIN table
    THEN LET row == table[clerkUserId]
             new == IF email # "" /\ row.email # email
                    THEN [row EXCEPT !.email = email]
                    ELSE row
         IN  [table   |-> [table EXCEPT ![clerkUserId] = new],
              row     |-> new,
              created |-> FALSE]
    ELSE LET new == [access_level |-> defaultAccessLevel, email |-> email]
         IN  [table   |-> [id \in DOMAIN table \cup {clerkUserId} |->
                              IF id = clerkUserId THEN new ELSE table[id]],
              row     |-> new,
              created |-> TRUE]

Auth(r) ==
    IF r.userId = NoUserId
    THEN Respond(r, 401, "Unauthorized. Please sign in.")
    ELSE [r EXCEPT !.pc = "currentUser"]

CurrentUser(r) ==
    IF ~r.clerkUser
    THEN Respond(r, 401, "User details not found after sign-in.")
    ELSE [r EXCEPT !.pc = "getOrCreateAppUser"]

\* variant: every level but the one new users get is let in
AccessCheckLetsPendingIn(r) ==
    IF r.appUser.access_level \notin AccessLevels
    THEN Respond(r, 403, "Access Denied. Your account is not approved or lacks permission for this feature.")
    ELSE [r EXCEPT !.pc = CASE r.handler = "GET"    -> "listDatasets"
                            [] r.handler = "import" -> "formData"
                            [] r.handler = "chat"   -> "json"]

AccessCheck(r) ==
    IF r.appUser.access_level \notin {"admin"}
    THEN Respond(r, 403, "Access Denied. Your account is not approved or lacks permission for this feature.")
    ELSE [r EXCEPT !.pc = CASE r.handler = "GET"    -> "listDatasets"
                            [] r.handler = "import" -> "formData"
                            [] r.handler = "chat"   -> "json"]

(***************************************************************************)
(* import POST                                                             *)
(***************************************************************************)
ImportValidate(r, body) ==
    LET t == [r EXCEPT !.datasetName = body.datasetName]
    IN  IF ~body.parses
        THEN Respond(r, 500, "Failed to import data.")
        ELSE IF body.datasetName = Null \/ Trim(body.datasetName) = <<>>
        THEN Respond(t, 400, "Dataset name is required.")
        ELSE IF IsInvalidName(body.datasetName)
        THEN Respond(t, 400, "Invalid dataset name. Use only alphanumeric, underscores, max 50 chars.")
        ELSE IF body.file # NoFile /\ body.file.extension \notin {"txt", "md"}
        THEN Respond(t, 400, "Unsupported file type")
        ELSE IF /\ body.file = NoFile
                /\ (body.text = Null \/ Trim(body.text) = <<>>)
        THEN Respond(t, 400, "No file or text content provided.")
        ELSE LET contentToProcess ==
                     IF body.file # NoFile THEN body.file.content
                     ELSE body.text
             IN  IF contentToProcess = <<>> \/ Trim(contentToProcess) = <<>>
                 THEN Respond(t, 400, "Content to process is empty.")
                 ELSE [t EXCEPT !.pc = "ensureDatasetTableExists",
                                !.contentToProcess = contentToProcess]

\* the statements of ensureDatasetTableExists and registerDatasetInMetadata
TableStatements ==
    <<"createExtension", "createTable", "createIndex", "registerDataset">>

\* failAt = 0: no client could be obtained; failAt = k: statement k throws;
\* failAt beyond the last statement: nothing fails
EnsureDatasetTableExistsEffects(datasetName, failAt) ==
    IF IsInvalidName(datasetName) THEN <<>>
    ELSE [k \in 1..Min(failAt, Len(TableStatements)) |->
             Effect(TableStatements[k], datasetName, k # failAt)]

EnsureDatasetTableExists(r, failAt) ==
    IF IsInvalidName(r.datasetName) \/ failAt <= Len(TableStatements)
    THEN Respond(r, 500, "Failed to import data.")
    ELSE [r EXCEPT !.pc = "chunkText"]

ImportChunkText(r) ==
    [r EXCEPT !.pc = "forChunk",
              !.chunks = ChunkTextOf(r.contentToProcess, ChunkLimit),
              !.i = 0,
              !.successfulEmbeddingsAndStorage = 0,
              !.failedOperations = 0]

ChunkOutcomes == {"stored", "embeddingFails", "storeFails"}

\* the calls one iteration of the loop makes
ImportChunkEffects(r, outcome) ==
    LET chunk == r.chunks[r.i + 1]
    IN  IF Trim(chunk) = <<>> THEN <<>>
        ELSE IF outcome = "embeddingFails"
        THEN <<Effect("embedding", chunk, FALSE)>>
        ELSE <<Effect("embedding", chunk, TRUE),
               Effect("store", chunk, outcome = "stored")>>

\* variant: the first failure ends the loop
ImportChunkFailsFast(r, outcome) ==
    LET chunk == r.chunks[r.i + 1]
    IN  IF Trim(chunk) = <<>> THEN [r EXCEPT !.i = @ + 1]
        ELSE IF outcome = "stored"
        THEN [r EXCEPT !.i = @ + 1,
                       !.successfulEmbeddingsAndStorage = @ + 1]
        ELSE [r EXCEPT !.i = Len(r.chunks), !.failedOperations = @ + 1]

\* variant: a chunk whose storage failed is counted as stored
ImportChunkCountsEmbedded(r, outcome) ==
    LET chunk == r.chunks[r.i + 1]
    IN  IF Trim(chunk) = <<>> THEN [r EXCEPT !.i = @ + 1]
        ELSE IF outcome # "embeddingFails"
        THEN [r EXCEPT !.i = @ + 1,
                       !.successfulEmbeddingsAndStorage = @ + 1]
        ELSE [r EXCEPT !.i = @ + 1, !.failedOperations = @ + 1]

\* one iteration of the loop over the chunks
ImportChunk(r, outcome) ==
    LET chunk == r.chunks[r.i + 1]
    IN  IF Trim(chunk) = <<>> THEN [r EXCEPT !.i = @ + 1]
        ELSE IF outcome = "stored"
        THEN [r EXCEPT !.i = @ + 1,
                       !.successfulEmbeddingsAndStorage = @ + 1]
        ELSE [r EXCEPT !.i = @ + 1, !.failedOperations = @ + 1]

\* variant: one failed chunk is enough for the answer 500
ImportRespondAnyFailure(r) ==
    IF /\ r.failedOperations > 0
       /\ Len(Trim(r.contentToProcess)) > 0
       /\ Len(r.chunks) > 0
    THEN Respond(r, 500, "Failed to process and store any content.")
    ELSE Respond(r, 200, "")

ImportRespond(r) ==
    IF /\ r.successfulEmbeddingsAndStorage = 0
       /\ Len(Trim(r.contentToProcess)) > 0
       /\ Len(r.chunks) > 0
    THEN Respond(r, 500, "Failed to process and store any content.")
    ELSE Respond(r, 200, "")

(***************************************************************************)
(* chat POST                                                               *)
(***************************************************************************)
ChatValidate(r, body) ==
    LET t == [r EXCEPT !.query = body.query,
                       !.datasetName = body.datasetName,
                       !.history = body.history]
    IN  IF ~body.parses
        THEN Respond(r, 400, "Invalid JSON in request body.")
        ELSE IF body.query = Null \/ Trim(body.query) = <<>>
        THEN Respond(t, 400, "Query is required.")
        ELSE IF body.datasetName = Null \/ Trim(body.datasetName) = <<>>
        THEN Respond(t, 400, "Dataset name is required.")
        ELSE IF IsInvalidName(body.datasetName)
        THEN Respond(t, 400, "Invalid dataset name format.")
        ELSE [t EXCEPT !.pc = "embedQuery"]

EmbedQuery(r, ok) ==
    IF ok THEN [r EXCEPT !.pc = "retrieveContext"]
    ELSE Respond(r, 500, "Failed to process query embedding.")

\* what the query of retrieveContextFromDB does
RetrieveOutcomes == {"rows", "noRows", "throws"}

RetrieveContext(r, outcome) ==
    IF outcome = "throws"
    THEN Respond(r, 500, "Failed to retrieve context from database.")
    ELSE [r EXCEPT !.pc = "prompt",
                   !.contextChunks = IF outcome = "rows" THEN << <<"a">> >>
                                     ELSE <<>>]

\* history.map(...) throws on a history that is null
BuildPrompt(r) ==
    IF r.history = "null"
    THEN Respond(r, 500, "Failed to process chat request.")
    ELSE [r EXCEPT !.pc = "completion"]

\* what the completion service does: it throws, or answers with a content
\* that may be null, empty or blank
CompletionOutcomes ==
    {[throws |-> TRUE, content |-> Null]}
    \cup [throws : {FALSE},
          content : {Null, <<>>, <<SP>>, <<"a">>, <<SP, "a", SP>>}]

\* the messages, each one character of the strings of the model
LlmNoContentAnswer ==
    <<"Sorry, I couldn't generate a response at this time.">>

DefaultAnswer == <<"Sorry, I could not generate a response at this time.">>

ErrorAnswer ==
    <<"Sorry, there was an error communicating with the AI. (",
      "OpenAI API Error", ")">>

\* getOpenAIChatCompletion: the trimmed content, or its own message
GetOpenAIChatCompletion(outcome) ==
    IF outcome.content # Null /\ outcome.content # <<>>
    THEN Trim(outcome.content)
    ELSE LlmNoContentAnswer

\* variant: a failure of the completion service is answered 500
CompletionPropagates(r, outcome) ==
    IF outcome.throws
    THEN Respond(r, 500, "Failed to process chat request.")
    ELSE Respond([r EXCEPT !.llmAnswer = GetOpenAIChatCompletion(outcome)],
                 200, "")

\* variant: the answer of the service is passed on as it is
CompletionPassesEmpty(r, outcome) ==
    LET llmAnswer ==
            IF outcome.throws THEN ErrorAnswer
            ELSE GetOpenAIChatCompletion(outcome)
    IN  Respond([r EXCEPT !.llmAnswer = llmAnswer], 200, "")

Completion(r, outcome) ==
    LET llmAnswer ==
            IF outcome.throws THEN ErrorAnswer
            ELSE LET openAIResponse == GetOpenAIChatCompletion(outcome)
                 IN  IF openAIResponse # <<>> THEN openAIResponse
                     ELSE DefaultAnswer
    IN  Respond([r EXCEPT !.llmAnswer = llmAnswer], 200, "")

(***************************************************************************)
(* The handlers serve one request after the other.                         *)
(***************************************************************************)
ApiInit ==
    /\ req = NoRequest
    /\ users \in Tables
    /\ effects = <<>>
    /\ inv = Returned
    /\ invocations = <<>>
    /\ page = NoPage
    /\ NoDatabase

\* a request arrives: currentUser() is only asked with a session
DoRequest ==
    /\ req.pc \in {"idle", "done"}
    /\ \E handler \in Handlers, userId \in UserIds \cup {NoUserId},
          clerkUser \in BOOLEAN, email \in Emails :
           /\ userId = NoUserId => ~clerkUser
           /\ ~clerkUser => email = ""
           /\ req' = Request(handler, userId, clerkUser, email)
    /\ effects' = <<>>
    /\ UNCHANGED <<users, inv, invocations, page, pool, procs, db>>

DoAuth ==
    /\ req.pc = "auth"
    /\ req' = Auth(req)
    /\ UNCHANGED <<users, effects, inv, invocations, page, pool, procs, db>>

DoCurrentUser ==
    /\ req.pc = "currentUser"
    /\ req' = CurrentUser(req)
    /\ UNCHANGED <<users, effects, inv, invocations, page, pool, procs, db>>

DoGetOrCreateAppUser ==
    /\ req.pc = "getOrCreateAppUser"
    /\ \E queriesSucceed \in BOOLEAN :
           IF queriesSucceed
           THEN LET res == GetOrCreateAppUser(users, req.userId, req.email,
                                              "pending_approval")
                IN  /\ users' = res.table
                    /\ req' = [req EXCEPT !.pc = "accessCheck",
                                          !.appUser = res.row,
                                          !.created = res.created]
           ELSE /\ users' = users
                /\ req' = Respond(req, 500,
                                  "Error processing your user account.")
    /\ UNCHANGED <<effects, inv, invocations, page, pool, procs, db>>

DoAccessCheck ==
    /\ req.pc = "accessCheck"
    /\ req' = AccessCheck(req)
    /\ UNCHANGED <<users, effects, inv, invocations, page, pool, procs, db>>

DoListDatasets ==
    /\ req.pc = "listDatasets"
    /\ \E outcome \in {"rows", "connectFails", "queryFails"} :
           /\ req' = IF outcome = "rows" THEN Respond(req, 200, "")
                     ELSE Respond(req, 500, "Failed to fetch datasets.")
           /\ effects' = IF outcome = "connectFails" THEN effects
                         ELSE Append(effects, Effect("listDatasets", <<>>,
                                                     outcome = "rows"))
    /\ UNCHANGED <<users, inv, invocations, page, pool, procs, db>>

DoImportValidate ==
    /\ req.pc = "formData"
    /\ \E body \in ImportBodies : req' = ImportValidate(req, body)
    /\ UNCHANGED <<users, effects, inv, invocations, page, pool, procs, db>>

DoEnsureDatasetTableExists ==
    /\ req.pc = "ensureDatasetTableExists"
    /\ \E failAt \in 0..(Len(TableStatements) + 1) :
           /\ req' = EnsureDatasetTableExists(req, failAt)
           /\ effects' = effects \o
                  EnsureDatasetTableExistsEffects(req.datasetName, failAt)
    /\ UNCHANGED <<users, inv, invocations, page, pool, procs, db>>

DoImportChunkText ==
    /\ req.pc = "chunkText"
    /\ req' = ImportChunkText(req)
    /\ UNCHANGED <<users, effects, inv, invocations, page, pool, procs, db>>

DoImportChunk ==
    /\ req.pc = "forChunk"
    /\ req.i < Len(req.chunks)
    /\ \E outcome \in ChunkOutcomes :
           /\ req' = ImportChunk(req, outcome)
           /\ effects' = effects \o ImportChunkEffects(req, outcome)
    /\ UNCHANGED <<users, inv, invocations, page, pool, procs, db>>

DoImportRespond ==
    /\ req.pc = "forChunk"
    /\ ~(req.i < Len(req.chunks))
    /\ req' = ImportRespond(req)
    /\ UNCHANGED <<users, effects, inv, invocations, page, pool, procs, db>>

DoChatValidate ==
    /\ req.pc = "json"
    /\ \E body \in ChatBodies : req' = ChatValidate(req, body)
    /\ UNCHANGED <<users, effects, inv, invocations, page, pool, procs, db>>

DoEmbedQuery ==
    /\ req.pc = "embedQuery"
    /\ \E ok \in BOOLEAN :
           /\ req' = EmbedQuery(req, ok)
           /\ effects' = Append(effects, Effect("embedding", req.query, ok))
    /\ UNCHANGED <<users, inv, invocations, page, pool, procs, db>>

DoRetrieveContext ==
    /\ req.pc = "retrieveContext"
    /\ \E outcome \in RetrieveOutcomes :
           /\ req' = RetrieveContext(req, outcome)
           /\ effects' = Append(effects, Effect("retrieve", req.datasetName,
                                                outcome # "throws"))
    /\ UNCHANGED <<users, inv, invocations, page, pool, procs, db>>

DoBuildPrompt ==
    /\ req.pc = "prompt"
    /\ req' = BuildPrompt(req)
    /\ UNCHANGED <<users, effects, inv, invocations, page, pool, procs, db>>

DoCompletion ==
    /\ req.pc = "completion"
    /\ \E outcome \in CompletionOutcomes :
           /\ req' = Completion(req, outcome)
           /\ effects' = Append(effects,
                  Effect("completion", req.query,
                         /\ ~outcome.throws
                         /\ outcome.content # Null
                         /\ Trim(outcome.content) # <<>>))
    /\ UNCHANGED <<users, inv, invocations, page, pool, procs, db>>

ApiNext ==
    \/ DoRequest
    \/ DoAuth
    \/ DoCurrentUser
    \/ DoGetOrCreateAppUser
    \/ DoAccessCheck
    \/ DoListDatasets
    \/ DoImportValidate
    \/ DoEnsureDatasetTableExists
    \/ DoImportChunkText
    \/ DoImportChunk
    \/ DoImportRespond
    \/ DoChatValidate
    \/ DoEmbedQuery
    \/ DoRetrieveContext
    \/ DoBuildPrompt
    \/ DoCompletion

ApiSpec == ApiInit /\ [][ApiNext]_vars

(***************************************************************************)
(* The chat page (src/src/app/chat/page.tsx): the component's state in     *)
(* `page`, one action per event handler and per settled fetch.  A handler  *)
(* reads the state of the render it was created in, and React has          *)
(* rendered again before the next event is delivered, so each handler is   *)
(* an operator on the rendered state.                                      *)
(***************************************************************************)
\* the most messages the page creates (Date.now() numbers them)
MaxMessages == 8

\* what the user can type: nothing, a blank, a question
Inputs == {<<>>, <<SP>>, <<"q">>}

\* the lists of dataset_table_name values /api/datasets can answer with
DatasetLists == {<<>>, <<"d1">>, <<"d1", "d2">>, <<"d2", "d1">>}

\* no dataset selected
NoDataset == ""

\* Array.prototype.slice(start, end) with negative indexes counted from the
\* end of the array
Slice(array, start, end) ==
    LET len  == Len(array)
        from == IF start < 0 THEN Max(len + start, 0) ELSE Min(start, len)
        to   == IF end < 0 THEN Max(len + end, 0) ELSE Min(end, len)
    IN SubSeq(array, from + 1, to)

\* the body handleSubmit posts to /api/chat
ChatRequest(p, currentInput) ==
    [query       |-> currentInput,
     datasetName |-> p.selectedDataset,
     history     |-> Slice(p.messages, -6, -1)]

Message(id, text, sender) == [id |-> id, text |-> text, sender |-> sender]

\* the component after its first render: fetchAvailableDatasets is on its way
Mounted ==
    [mounted           |-> TRUE,
     messages          |-> <<>>,
     input             |-> <<>>,
     isLoading         |-> FALSE,
     isLoadingDatasets |-> TRUE,
     availableDatasets |-> <<>>,
     selectedDataset   |-> NoDataset,
     inFlight          |-> <<>>,
     now               |-> 1]

\* what /api/datasets can answer: a list, a non-ok response, a failed fetch
DatasetsOutcomes == {"ok", "notOk", "throws"}

FetchAvailableDatasets(p, outcome, formattedDatasets) ==
    IF outcome = "ok"
    THEN [p EXCEPT !.availableDatasets = formattedDatasets,
                   !.selectedDataset =
                       IF Len(formattedDatasets) > 0
                          /\ p.selectedDataset = NoDataset
                       THEN formattedDatasets[1]
                       ELSE @,
                   !.isLoadingDatasets = FALSE]
    ELSE [p EXCEPT !.availableDatasets = <<>>, !.isLoadingDatasets = FALSE]

HandleDatasetChange(p, value) ==
    [p EXCEPT !.selectedDataset = value, !.messages = <<>>]

\* handleSubmit up to its await; the variant never sets isLoading
HandleSubmitStaysIdle(p) ==
    IF Trim(p.input) = <<>> \/ p.isLoading \/ p.selectedDataset = NoDataset
    THEN p
    ELSE [p EXCEPT !.messages = Append(@, Message(p.now, p.input, "user")),
                   !.input = <<>>,
                   !.inFlight = Append(@, ChatRequest(p, p.input)),
                   !.now = @ + 1]

HandleSubmit(p) ==
    IF Trim(p.input) = <<>> \/ p.isLoading \/ p.selectedDataset = NoDataset
    THEN p
    ELSE [p EXCEPT !.messages = Append(@, Message(p.now, p.input, "user")),
                   !.input = <<>>,
                   !.isLoading = TRUE,
                   !.inFlight = Append(@, ChatRequest(p, p.input)),
                   !.now = @ + 1]

\* how the fetch of /api/chat can settle
ChatOutcomes == {"ok", "notOk", "throws"}

\* handleSubmit from its await on: the answer or the error is shown
ChatSettled(p, outcome) ==
    [p EXCEPT !.messages =
                  Append(@, Message(p.now,
                                    IF outcome = "ok" THEN <<"a">>
                                    ELSE <<"E", "r", "r", "o", "r", ":", SP>>,
                                    "ai")),
              !.isLoading = FALSE,
              !.inFlight = Tail(@),
              !.now = @ + 1]

PageInit ==
    /\ page = Mounted
    /\ inv = Returned
    /\ invocations = <<>>
    /\ req = NoRequest
    /\ users = <<>>
    /\ effects = <<>>
    /\ NoDatabase

DoFetchAvailableDatasets ==
    /\ page.isLoadingDatasets
    /\ \E outcome \in DatasetsOutcomes, formattedDatasets \in DatasetLists :
           page' = FetchAvailableDatasets(page, outcome, formattedDatasets)
    /\ UNCHANGED <<inv, invocations, req, users, effects, pool, procs, db>>

\* the text input takes a change while it is not disabled
DoSetInput ==
    /\ ~(page.isLoading \/ page.selectedDataset = NoDataset
         \/ page.isLoadingDatasets)
    /\ \E value \in Inputs : page' = [page EXCEPT !.input = value]
    /\ UNCHANGED <<inv, invocations, req, users, effects, pool, procs, db>>

\* the select is rendered with the listed datasets and takes a change while
\* it is not disabled
DoHandleDatasetChange ==
    /\ ~(page.isLoading \/ page.isLoadingDatasets)
    /\ \E i \in 1..Len(page.availableDatasets) :
           LET value == page.availableDatasets[i] IN
           page' = HandleDatasetChange(page, value)
    /\ UNCHANGED <<inv, invocations, req, users, effects, pool, procs, db>>

\* the form is submitted
DoHandleSubmit ==
    /\ page.now < MaxMessages
    /\ page' = HandleSubmit(page)
    /\ UNCHANGED <<inv, invocations, req, users, effects, pool, procs, db>>

\* the oldest fetch of /api/chat settles
DoChatSettled ==
    /\ page.inFlight # <<>>
    /\ \E outcome \in ChatOutcomes : page' = ChatSettled(page, outcome)
    /\ UNCHANGED <<inv, invocations, req, users, effects, pool, procs, db>>

PageNext ==
    \/ DoFetchAvailableDatasets
    \/ DoSetInput
    \/ DoHandleDatasetChange
    \/ DoHandleSubmit
    \/ DoChatSettled

PageSpec == PageInit /\ [][PageNext]_vars

(***************************************************************************)
(* The database functions run concurrently: every call in `procs` is at    *)
(* one of its awaits, `pool` is the pg Pool (getDbPool creates it without  *)
(* a maximum or a timeout, so connect() waits until a client is free),     *)
(* and `db` holds the tables.  A call keeps, for every client it obtained, *)
(* how often it released it.                                               *)
(***************************************************************************)
\* the largest pool
MaxPoolSize == 2

\* the concurrent calls
Callers == {1, 2}

\* one call of a database function at its first step
Call(fn, userId, email, datasetName, textChunk, embedding) ==
    [fn          |-> fn,
     pc          |-> CASE fn = "getUserAppRole" -> "auth"
                       [] fn \in {"getOrCreateAppUser",
                                  "ensureDatasetTableExists",
                                  "retrieveContextFromDB"} -> "check"
                       [] OTHER -> "connect",
     userId      |-> userId,
     email       |-> email,
     datasetName |-> datasetName,
     textChunk   |-> textChunk,
     embedding   |-> embedding,
     clients     |-> <<>>,
     rows        |-> <<>>,
     inserted    |-> FALSE,
     outcome     |-> "running"]

Calls ==
    {Call("getUserAppRole", userId, "", <<>>, <<>>, "") :
         userId \in {NoUserId, "u1"}}
    \cup {Call("getOrCreateAppUser", "u1", "e1", <<>>, <<>>, ""),
          Call("GET", "", "", <<>>, <<>>, ""),
          Call("registerDatasetInMetadata", "", "", <<"d">>, <<>>, ""),
          Call("storeInNeon", "", "", <<"d">>, <<"a">>, "v1"),
          Call("storeInNeon", "", "", <<"d">>, <<"b">>, "v2")}
    \cup {Call(fn, "", "", datasetName, <<>>, "v1") :
              fn \in {"ensureDatasetTableExists", "retrieveContextFromDB"},
              datasetName \in {<<"d">>, <<"-">>}}

\* the tables: app_users (its schema is not part of the repository: with or
\* without a unique constraint on clerk_user_id), the dataset table with
\* its SERIAL, app_datasets
Database(appUsers, unique) ==
    [app_users    |-> appUsers,
     unique       |-> unique,
     dataset      |-> <<>>,
     serial       |-> 1,
     app_datasets |-> {}]

\* the clients checked out of the pool
CheckedOut(calls) ==
    Cardinality({c \in Callers \X (1..2) :
                     /\ c[2] <= Len(calls[c[1]].clients)
                     /\ calls[c[1]].clients[c[2]] = 0})

\* a call ends
Finish(f, outcome) == [f EXCEPT !.pc = "done", !.outcome = outcome]

\* the steps before the first connect: auth() and the argument checks
Check(f) ==
    CASE f.fn = "getUserAppRole" ->
             IF f.userId = NoUserId THEN Finish(f, "returned")
             ELSE [f EXCEPT !.pc = "connect"]
      [] f.fn = "getOrCreateAppUser" ->
             IF f.userId = NoUserId THEN Finish(f, "threw")
             ELSE [f EXCEPT !.pc = "connect"]
      [] f.fn = "ensureDatasetTableExists" ->
             IF IsInvalidName(f.datasetName) THEN Finish(f, "threw")
             ELSE [f EXCEPT !.pc = "connect"]
      [] f.fn = "retrieveContextFromDB" ->
             IF ~(f.datasetName # <<>>
                  /\ \A k \in 1..Len(f.datasetName) :
                         f.datasetName[k] \in NameChars)
             THEN Finish(f, "threw")
             ELSE [f EXCEPT !.pc = "connect"]

\* await dbPool.connect(): a client, or an error with no client
Connect(f, ok) ==
    IF ok
    THEN [f EXCEPT !.clients = Append(@, 0),
                   !.pc = CASE f.pc = "register.connect" -> "register.upsert"
                            [] f.fn \in {"getUserAppRole", "getOrCreateAppUser",
                                         "GET", "retrieveContextFromDB"} -> "select"
                            [] f.fn = "registerDatasetInMetadata" -> "upsert"
                            [] f.fn = "ensureDatasetTableExists" -> "createExtension"
                            [] f.fn = "storeInNeon" -> "insert"]
    ELSE IF f.pc = "register.connect"
         THEN [f EXCEPT !.pc = "release", !.outcome = "threw"]
         ELSE Finish(f, IF f.fn = "GET" THEN "returned" ELSE "threw")

\* a query throws: the catch, then the finally of the function it is in
QueryThrows(f) ==
    [f EXCEPT !.pc = IF f.pc = "register.upsert" THEN "register.release"
                     ELSE "release",
              !.outcome = IF f.fn \in {"getUserAppRole", "GET"}
                          THEN "returned" ELSE "threw"]

\* the rows of app_users for a clerk_user_id
UserRows(d, clerkUserId) ==
    SelectSeq(d.app_users, LAMBDA row : row.clerk_user_id = clerkUserId)

\* await client.query(...) answers
Query(f, d) ==
    CASE f.pc = "select" /\ f.fn = "getOrCreateAppUser" ->
             LET rows == UserRows(d, f.userId)
             IN  [f |-> [f EXCEPT !.rows = rows,
                                  !.pc = IF Len(rows) > 0
                                         THEN IF f.email # ""
                                                 /\ rows[1].email # f.email
                                              THEN "update" ELSE "release"
                                         ELSE "insert"],
                  d |-> d]
      [] f.pc = "select" /\ f.fn = "getUserAppRole" ->
             [f |-> [f EXCEPT !.rows = UserRows(d, f.userId), !.pc = "release"],
              d |-> d]
      [] f.pc = "select" /\ f.fn \in {"GET", "retrieveContextFromDB"} ->
             [f |-> [f EXCEPT !.pc = "release"], d |-> d]
      [] f.pc = "update" ->
             [f |-> [f EXCEPT !.rows[1].email = f.email, !.pc = "release"],
              d |-> [d EXCEPT !.app_users =
                         [i \in 1..Len(@) |->
                             IF @[i].clerk_user_id = f.userId
                             THEN [@[i] EXCEPT !.email = f.email]
                             ELSE @[i]]]]
      [] f.pc = "insert" /\ f.fn = "getOrCreateAppUser" ->
             IF d.unique /\ Len(UserRows(d, f.userId)) > 0
             THEN [f |-> [QueryThrows(f) EXCEPT !.inserted = TRUE], d |-> d]
             ELSE LET row == [clerk_user_id |-> f.userId,
                              email         |-> f.email,
                              access_level  |-> "pending_approval"]
                  IN  [f |-> [f EXCEPT !.rows = <<row>>, !.inserted = TRUE,
                                       !.pc = "release"],
                       d |-> [d EXCEPT !.app_users = Append(@, row)]]
      [] f.pc = "insert" /\ f.fn = "storeInNeon" ->
             [f |-> [f EXCEPT !.pc = "release"],
              d |-> [d EXCEPT !.dataset =
                                  Append(@, [id         |-> d.serial,
                                             text_chunk |-> f.textChunk,
                                             embedding  |-> f.embedding]),
                              !.serial = @ + 1]]
      [] f.pc = "createExtension" ->
             [f |-> [f EXCEPT !.pc = "createTable"], d |-> d]
      [] f.pc = "createTable" ->
             [f |-> [f EXCEPT !.pc = "createIndex"], d |-> d]
      [] f.pc = "createIndex" ->
             [f |-> [f EXCEPT !.pc = "register.connect"], d |-> d]
      [] f.pc = "register.upsert" ->
             [f |-> [f EXCEPT !.pc = "register.release"],
              d |-> [d EXCEPT !.app_datasets = @ \cup {f.datasetName}]]
      [] f.pc = "upsert" ->
             [f |-> [f EXCEPT !.pc = "release"],
              d |-> [d EXCEPT !.app_datasets = @ \cup {f.datasetName}]]

\* finally { client.release() }: registerDatasetInMetadata releases the
\* client it obtained, then ensureDatasetTableExists goes on to its own
\* finally; the variant is a storeInNeon that releases only after success
ReleaseOnSuccessOnly(f) ==
    IF f.fn = "storeInNeon" /\ f.outcome = "threw"
    THEN Finish(f, "threw")
    ELSE [Finish(f, IF f.outcome = "running" THEN "returned" ELSE f.outcome)
             EXCEPT !.clients[1] = @ + 1]

Release(f) ==
    IF f.pc = "register.release"
    THEN [f EXCEPT !.clients[Len(f.clients)] = @ + 1, !.pc = "release"]
    ELSE [Finish(f, IF f.outcome = "running" THEN "returned" ELSE f.outcome)
             EXCEPT !.clients[1] = @ + 1]

DbInit ==
    /\ pool \in {[max |-> n] : n \in 1..MaxPoolSize}
    /\ procs \in [Callers -> Calls]
    /\ db \in {Database(appUsers, unique) :
                   appUsers \in {<<>>, <<[clerk_user_id |-> "u1",
                                          email         |-> "",
                                          access_level  |-> "pending_approval"]>>},
                   unique \in BOOLEAN}
    /\ inv = Returned
    /\ invocations = <<>>
    /\ req = NoRequest
    /\ users = <<>>
    /\ effects = <<>>
    /\ page = NoPage

DoCheck ==
    /\ \E c \in Callers :
           /\ procs[c].pc \in {"auth", "check"}
           /\ procs' = [procs EXCEPT ![c] = Check(@)]
    /\ UNCHANGED <<inv, invocations, req, users, effects, page, pool, db>>

\* connect() hands out a client only while fewer than max are checked out
DoConnect ==
    /\ \E c \in Callers, ok \in BOOLEAN :
           /\ procs[c].pc \in {"connect", "register.connect"}
           /\ ok => CheckedOut(procs) < pool.max
           /\ procs' = [procs EXCEPT ![c] = Connect(@, ok)]
    /\ UNCHANGED <<inv, invocations, req, users, effects, page, pool, db>>

DoQuery ==
    /\ \E c \in Callers, ok \in BOOLEAN :
           /\ procs[c].pc \in {"select", "update", "insert", "upsert",
                               "createExtension", "createTable",
                               "createIndex", "register.upsert"}
           /\ IF ok
              THEN /\ procs' = [procs EXCEPT ![c] = Query(@, db).f]
                   /\ db' = Query(procs[c], db).d
              ELSE /\ procs' = [procs EXCEPT ![c] = QueryThrows(@)]
                   /\ db' = db
    /\ UNCHANGED <<inv, invocations, req, users, effects, page, pool>>

DoRelease ==
    /\ \E c \in Callers :
           /\ procs[c].pc \in {"release", "register.release"}
           /\ procs' = [procs EXCEPT ![c] = Release(@)]
    /\ UNCHANGED <<inv, invocations, req, users, effects, page, pool, db>>

DbNext ==
    \/ DoCheck
    \/ DoConnect
    \/ DoQuery
    \/ DoRelease

DbSpec == DbInit /\ [][DbNext]_vars

TypeOK ==
    /\ inv.pc \in {"chunkText", "forParagraph", "pushWordChunks",
                   "splitParagraphByWords", "forWord", "pushParts",
                   "splitLongWord", "whileCurrentPart", "done"}
    /\ inv.text \in Texts
    /\ inv.maxCharLength \in Limits

(***************************************************************************)
(* Helpers of the properties.                                              *)
(***************************************************************************)
Done == inv.pc = "done"

RECURSIVE Concat(_)
Concat(chunks) ==
    IF chunks = <<>> THEN <<>> ELSE Head(chunks) \o Concat(Tail(chunks))

Delete(str, cs) == SelectSeq(str, LAMBDA c : c \notin cs)

AllWithin(chunks, n) == \A i \in 1..Len(chunks) : Len(chunks[i]) <= n

(***************************************************************************)
(* C1: for a limit > 0 every chunk chunkText returns, a word group or a    *)
(* slice of a long word included, has at most limit characters, and so     *)
(* has the pending accumulator and every chunk collected so far at every   *)
(* step.                                                                   *)
(***************************************************************************)
ChunkLengthBounded ==
    inv.maxCharLength > 0 =>
        /\ AllWithin(inv.result, inv.maxCharLength)
        /\ Len(inv.currentParagraphChunk) <= inv.maxCharLength
        /\ AllWithin(inv.allChunks, inv.maxCharLength)
        /\ Len(inv.currentWordChunk) <= inv.maxCharLength
        /\ AllWithin(inv.wordChunks, inv.maxCharLength)
        /\ AllWithin(inv.parts, inv.maxCharLength)
        /\ AllWithin(inv.ret, inv.maxCharLength)

\* "a\nbbb" cut at 2: the accumulator, then the slices of a long word
ChunkLengthBoundedWitness ==
    /\ Done
    /\ inv.maxCharLength = 2
    /\ inv.text = <<"a", NL, "b", "b", "b">>
    /\ inv.result = << <<"a">>, <<"b", "b">>, <<"b">> >>

(***************************************************************************)
(* C2: whatever the text and the limit, no returned chunk is empty or      *)
(* made of white space only.                                               *)
(***************************************************************************)
NoBlankChunk ==
    \A i \in 1..Len(inv.result) :
        \E k \in 1..Len(inv.result[i]) : ~IsWhiteSpace(inv.result[i][k])

\* "a <tab>" cut at 1: the word made of a tab is dropped by the filter
NoBlankChunkWitness ==
    /\ Done
    /\ inv.maxCharLength = 1
    /\ inv.text = <<"a", SP, TAB>>
    /\ inv.result = << <<"a">> >>

(***************************************************************************)
(* C3 as stated: for a limit > 0 the chunks concatenated, spaces and line  *)
(* breaks deleted, are the text with spaces and line breaks deleted.       *)
(***************************************************************************)
ContentKeptModuloSpaceAndLineBreak ==
    (Done /\ inv.maxCharLength > 0) =>
        Delete(Concat(inv.result), {SP, NL}) = Delete(inv.text, {SP, NL})

(***************************************************************************)
(* C3 amended: for a limit > 0 the chunks concatenated, every white-space  *)
(* character deleted (space, line break and the other characters trim      *)
(* strips, such as a tab), are the text with every white-space character   *)
(* deleted: no other character is lost, duplicated or reordered.           *)
(***************************************************************************)
ContentKeptModuloWhiteSpace ==
    (Done /\ inv.maxCharLength > 0) =>
        Delete(Concat(inv.result), {SP, NL, TAB}) =
            Delete(inv.text, {SP, NL, TAB})

\* "b\naa<tab>" cut at 1: a paragraph, then the slices of a word whose
\* last slice, a tab, is dropped
ContentKeptWitness ==
    /\ Done
    /\ inv.maxCharLength = 1
    /\ inv.text = <<"b", NL, "a", "a", TAB>>
    /\ inv.result = << <<"b">>, <<"a">>, <<"a">> >>

(***************************************************************************)
(* C4: when the text is empty or the limit is zero or negative, chunkText  *)
(* returns the empty sequence, whatever the other argument.                *)
(***************************************************************************)
DegenerateInputGivesNoChunk ==
    (Done /\ (inv.text = <<>> \/ inv.maxCharLength <= 0)) => inv.result = <<>>

\* a non-empty text with a negative limit has returned
DegenerateInputWitness ==
    /\ Done
    /\ inv.text = <<"a", SP, "b", NL, "a">>
    /\ inv.maxCharLength < 0
    /\ inv.result = <<>>
(***************************************************************************)
(* More helpers.                                                           *)
(***************************************************************************)
IsBlank(str) == \A i \in 1..Len(str) : IsWhiteSpace(str[i])

Lines(text) == Split(text, NL)

LineBreaks(n) == [i \in 1..n |-> NL]

RECURSIVE JoinLines(_)
JoinLines(ps) ==
    IF Len(ps) <= 1 THEN Concat(ps)
    ELSE Head(ps) \o <<NL>> \o JoinLines(Tail(ps))

RECURSIVE DropLeadingBlank(_)
DropLeadingBlank(ps) ==
    IF ps # <<>> /\ IsBlank(Head(ps)) THEN DropLeadingBlank(Tail(ps)) ELSE ps

EmptyBlank(ps) == [i \in 1..Len(ps) |-> IF IsBlank(ps[i]) THEN <<>> ELSE ps[i]]

\* the text without its leading blank lines and with every white-space-only
\* line emptied
Normalised(text) == JoinLines(EmptyBlank(DropLeadingBlank(Lines(text))))

(***************************************************************************)
(* C5 as stated: a non-blank text shorter than limit comes back as the     *)
(* one-element sequence [text], whatever blank lines it holds.             *)
(***************************************************************************)
ShortTextReturnedWhole ==
    (Done /\ ~IsBlank(inv.text) /\ Len(inv.text) < inv.maxCharLength) =>
        inv.result = <<inv.text>>

(***************************************************************************)
(* C5 amended: a non-blank text shorter than limit comes back as exactly   *)
(* one chunk, the text without its leading blank lines and without the     *)
(* characters of its white-space-only lines; the chunk is the text itself  *)
(* when the text starts with a non-blank line and every blank line of it   *)
(* is empty.                                                               *)
(***************************************************************************)
ShortTextReturnedNormalised ==
    (Done /\ ~IsBlank(inv.text) /\ Len(inv.text) < inv.maxCharLength) =>
        /\ inv.result = <<Normalised(inv.text)>>
        /\ (/\ ~IsBlank(Head(Lines(inv.text)))
            /\ \A i \in 1..Len(Lines(inv.text)) :
                   IsBlank(Lines(inv.text)[i]) => Lines(inv.text)[i] = <<>>)
           => inv.result = <<inv.text>>

\* "\na\n " with limit 5: the leading blank line and the final space are gone
ShortTextWitness ==
    /\ Done
    /\ inv.maxCharLength = 5
    /\ inv.text = <<NL, "a", NL, SP>>
    /\ inv.result = << <<"a", NL>> >>

(***************************************************************************)
(* C6: when splitLongWord returns for a non-empty word longer than a       *)
(* limit > 0, the pieces concatenated are the word, every piece but the    *)
(* last has exactly limit characters and the last has between 1 and limit. *)
(***************************************************************************)
SplitLongWordReturned == inv.pc = "pushParts"

SplitLongWordPieces ==
    (/\ SplitLongWordReturned
     /\ inv.word # <<>>
     /\ inv.maxCharLength > 0
     /\ Len(inv.word) > inv.maxCharLength) =>
        LET pieces == inv.ret
            n      == Len(pieces)
        IN  /\ n >= 2
            /\ Concat(pieces) = inv.word
            /\ \A i \in 1..(n - 1) : Len(pieces[i]) = inv.maxCharLength
            /\ Len(pieces[n]) >= 1
            /\ Len(pieces[n]) <= inv.maxCharLength

\* "abbab" cut at 2: two full pieces and a remainder of one character
SplitLongWordWitness ==
    /\ SplitLongWordReturned
    /\ inv.maxCharLength = 2
    /\ inv.word = <<"a", "b", "b", "a", "b">>
    /\ inv.ret = << <<"a", "b">>, <<"b", "a">>, <<"b">> >>

(***************************************************************************)
(* C7 as stated: consecutive blank lines collapse to one separator: when   *)
(* two non-blank paragraphs separated by two or more blank lines end up in *)
(* the same chunk, that chunk holds no three consecutive line breaks.      *)
(***************************************************************************)
HasTripleLineBreak(chunk) ==
    \E i \in 1..(Len(chunk) - 2) :
        chunk[i] = NL /\ chunk[i + 1] = NL /\ chunk[i + 2] = NL

NoTripleLineBreak ==
    (/\ Done
     /\ Len(Lines(inv.text)) >= 4
     /\ ~IsBlank(Head(Lines(inv.text)))
     /\ ~IsBlank(Lines(inv.text)[Len(Lines(inv.text))])
     /\ \A i \in 2..(Len(Lines(inv.text)) - 1) : IsBlank(Lines(inv.text)[i])
     /\ Len(inv.result) = 1) =>
        ~HasTripleLineBreak(inv.result[1])

(***************************************************************************)
(* C7 amended: consecutive blank lines are not collapsed.  When the text   *)
(* is two non-blank paragraphs p1 and p2 separated by k >= 2 blank lines   *)
(* and length(p1) + k + 1 + length(p2) <= limit, the result is the single  *)
(* chunk p1, k + 1 line breaks, p2: one line break per blank line and the  *)
(* joining one, only the characters of white-space-only lines are lost.    *)
(***************************************************************************)
BlankLinesBetween(ps) ==
    /\ Len(ps) >= 3
    /\ ~IsBlank(ps[1])
    /\ ~IsBlank(ps[Len(ps)])
    /\ \A i \in 2..(Len(ps) - 1) : IsBlank(ps[i])

EveryBlankLineKept ==
    LET ps == Lines(inv.text)
        n  == Len(ps)
    IN  (/\ Done
         /\ BlankLinesBetween(ps)
         /\ n >= 4
         /\ Len(ps[1]) + (n - 1) + Len(ps[n]) <= inv.maxCharLength) =>
            inv.result = <<ps[1] \o LineBreaks(n - 1) \o ps[n]>>

\* "a\n\n\nb" with limit 5 is returned whole, three line breaks in a row
EveryBlankLineKeptWitness ==
    /\ Done
    /\ inv.maxCharLength = 5
    /\ inv.text = <<"a", NL, NL, NL, "b">>
    /\ inv.result = << <<"a", NL, NL, NL, "b">> >>

(***************************************************************************)
(* C8: two non-blank paragraphs p1 and p2 separated by exactly one blank   *)
(* line, with length(p1) + 2 + length(p2) <= limit, give the single chunk  *)
(* p1, two line breaks, p2.                                                *)
(***************************************************************************)
OneBlankLineEmbedded ==
    LET ps == Lines(inv.text)
    IN  (/\ Done
         /\ BlankLinesBetween(ps)
         /\ Len(ps) = 3
         /\ Len(ps[1]) + 2 + Len(ps[3]) <= inv.maxCharLength) =>
            inv.result = <<ps[1] \o <<NL, NL>> \o ps[3]>>

\* "a\n \nb" with limit 4: the blank line holds a space, the chunk does not
OneBlankLineWitness ==
    /\ Done
    /\ inv.maxCharLength = 4
    /\ inv.text = <<"a", NL, SP, NL, "b">>
    /\ inv.result = << <<"a", NL, NL, "b">> >>

(***************************************************************************)
(* C9 as stated: a text of n characters without space or line break, with  *)
(* n > limit > 0, gives ceil(n / limit) chunks whose concatenation is the  *)
(* text, all of length limit when limit divides n.                         *)
(***************************************************************************)
CeilDiv(n, d) == (n + d - 1) \div d

SlicedInto(text, limit, chunks) ==
    /\ Len(chunks) = CeilDiv(Len(text), limit)
    /\ Concat(chunks) = text
    /\ Len(text) % limit = 0 =>
           \A i \in 1..Len(chunks) : Len(chunks[i]) = limit

SingleWordSliced ==
    (/\ Done
     /\ inv.maxCharLength > 0
     /\ Len(inv.text) > inv.maxCharLength
     /\ \A i \in 1..Len(inv.text) : inv.text[i] \notin {SP, NL}) =>
        SlicedInto(inv.text, inv.maxCharLength, inv.result)

(***************************************************************************)
(* C9 amended: a text of n characters none of which is white space (no     *)
(* space, no line break, no tab or other character trim strips), with      *)
(* n > limit > 0, gives ceil(n / limit) chunks whose concatenation is the  *)
(* text, all of length limit when limit divides n.                         *)
(***************************************************************************)
SingleSolidWordSliced ==
    (/\ Done
     /\ inv.maxCharLength > 0
     /\ Len(inv.text) > inv.maxCharLength
     /\ \A i \in 1..Len(inv.text) : ~IsWhiteSpace(inv.text[i])) =>
        SlicedInto(inv.text, inv.maxCharLength, inv.result)

\* "abab" cut at 2: two chunks of two characters, no third chunk
SingleWordWitness ==
    /\ Done
    /\ inv.maxCharLength = 2
    /\ inv.text = <<"a", "b", "a", "b">>
    /\ inv.result = << <<"a", "b">>, <<"a", "b">> >>

(***************************************************************************)
(* C10: for every text and every integer limit chunkText returns: every    *)
(* iteration of the paragraph loop and of the word loop takes one element  *)
(* off its sequence, every iteration of the slicing loop shortens          *)
(* currentPart, the slicing loop is never entered with a limit <= 0, and   *)
(* the invocation reaches its return.                                      *)
(***************************************************************************)
LoopsConsume ==
    /\ AtParagraph(inv) => Len(inv'.paragraphs) = Len(inv.paragraphs) - 1
    /\ AtWord(inv) => Len(inv'.words) = Len(inv.words) - 1
    /\ (inv.pc = "whileCurrentPart" /\ inv'.pc = "whileCurrentPart") =>
           Len(inv'.currentPart) < Len(inv.currentPart)

ChunkTextTerminates ==
    /\ [][LoopsConsume]_vars
    /\ [](inv.pc = "whileCurrentPart" => inv.maxCharLength > 0)
    /\ <>Done

\* "\nb ab" cut at 1 has gone through the three loops and returned
ChunkTextTerminatesWitness ==
    /\ Done
    /\ inv.maxCharLength = 1
    /\ inv.text = <<NL, "b", SP, "a", "b">>
    /\ inv.result = << <<"b">>, <<"a">>, <<"b">> >>
(***************************************************************************)
(* Helpers of the word-packing properties.                                 *)
(***************************************************************************)
SplitParagraphByWordsReturned == inv.pc = "pushWordChunks"

\* the non-empty words of a paragraph, in order
WordsOf(paragraph) == SelectSeq(Split(paragraph, SP), LAMBDA w : w # <<>>)

\* a word cut into consecutive pieces of n characters, the last one shorter
\* when n does not divide the length
Slices(w, n) ==
    [i \in 1..CeilDiv(Len(w), n) |->
        SubSeq(w, (i - 1) * n + 1, Min(i * n, Len(w)))]

(***************************************************************************)
(* C15: when splitParagraphByWords returns, the slices of every word       *)
(* longer than limit stand in the output as chunks of their own, in order, *)
(* after the chunks made of the words before it and before the chunks made *)
(* of the words after it: no slice, the shorter last one included, is      *)
(* combined with a neighbouring word.                                      *)
(***************************************************************************)
LongWordSlicesStandAlone ==
    SplitParagraphByWordsReturned =>
        LET ws  == WordsOf(inv.paragraph)
            out == inv.ret
        IN  \A k \in 1..Len(ws) :
                Len(ws[k]) > inv.maxCharLength =>
                    LET sl == Slices(ws[k], inv.maxCharLength)
                    IN  \E i \in 1..Len(out) :
                            /\ i + Len(sl) - 1 <= Len(out)
                            /\ SubSeq(out, i, i + Len(sl) - 1) = sl
                            /\ Delete(Concat(SubSeq(out, 1, i - 1)), {SP}) =
                                   Concat(SubSeq(ws, 1, k - 1))
                            /\ Delete(Concat(SubSeq(out, i + Len(sl), Len(out))),
                                      {SP}) =
                                   Concat(SubSeq(ws, k + 1, Len(ws)))

\* "bbbb a" cut at 3: the remainder "b" and the word "a" would fit in one
\* chunk and are kept apart
LongWordSlicesWitness ==
    /\ SplitParagraphByWordsReturned
    /\ inv.maxCharLength = 3
    /\ inv.paragraph = <<"b", "b", "b", "b", SP, "a">>
    /\ inv.ret = << <<"b", "b", "b">>, <<"b">>, <<"a">> >>
(***************************************************************************)
(* C16: the paragraph-level boundary is inclusive.  A non-blank paragraph  *)
(* of at most limit characters is never handed to splitParagraphByWords:   *)
(* it enters the accumulator whole.  Met with a non-empty accumulator it   *)
(* is merged exactly when length(accumulator) + 1 + length(p) <= limit;    *)
(* otherwise the accumulator is pushed before anything derived from p.     *)
(***************************************************************************)
ParagraphStep ==
    LET p   == Head(inv.paragraphs)
        cur == inv.currentParagraphChunk
        n   == inv.maxCharLength
    IN  (AtParagraph(inv) /\ ~IsBlank(p)) =>
            /\ Len(p) <= n =>
                   /\ inv'.pc = "forParagraph"
                   /\ inv'.currentParagraphChunk \in {p, cur \o <<NL>> \o p}
            /\ cur # <<>> =>
                   IF Len(cur) + 1 + Len(p) <= n
                   THEN /\ inv'.currentParagraphChunk = cur \o <<NL>> \o p
                        /\ inv'.allChunks = inv.allChunks
                   ELSE /\ inv'.allChunks = inv.allChunks \o <<cur>>
                        /\ Len(p) <= n => inv'.currentParagraphChunk = p

ParagraphBoundaryInclusive == [][ParagraphStep]_vars

\* "a\nb b" with limit 5: 1 + 1 + 3 = 5, the paragraphs are merged
ParagraphBoundaryWitness ==
    /\ Done
    /\ inv.maxCharLength = 5
    /\ inv.text = <<"a", NL, "b", SP, "b">>
    /\ inv.result = << <<"a", NL, "b", SP, "b">> >>

(***************************************************************************)
(* C17: word packing is greedy with an inclusive boundary.  A non-empty    *)
(* word w of at most limit characters met with a non-empty group is        *)
(* appended after one space exactly when length(group) + 1 + length(w) <=  *)
(* limit; otherwise the group is pushed and w starts the next group.  Met  *)
(* with an empty group, w becomes the group.                               *)
(***************************************************************************)
WordStep ==
    LET w == Head(inv.words)
        g == inv.currentWordChunk
        n == inv.maxCharLength
    IN  (AtWord(inv) /\ w # <<>> /\ Len(w) <= n) =>
            /\ inv'.pc = "forWord"
            /\ IF g = <<>>
               THEN /\ inv'.currentWordChunk = w
                    /\ inv'.wordChunks = inv.wordChunks
               ELSE IF Len(g) + 1 + Len(w) <= n
                    THEN /\ inv'.currentWordChunk = g \o <<SP>> \o w
                         /\ inv'.wordChunks = inv.wordChunks
                    ELSE /\ inv'.currentWordChunk = w
                         /\ inv'.wordChunks = inv.wordChunks \o <<g>>

WordPackingGreedy == [][WordStep]_vars

\* "a b a" cut at 3: 1 + 1 + 1 = 3, "b" has joined "a" and "a" is next
WordPackingWitness ==
    /\ inv.pc = "forWord"
    /\ inv.maxCharLength = 3
    /\ inv.paragraph = <<"a", SP, "b", SP, "a">>
    /\ inv.currentWordChunk = <<"a", SP, "b">>
    /\ inv.words = << <<"a">> >>

(***************************************************************************)
(* C18: every chunk splitParagraphByWords returns is free of leading,      *)
(* trailing and repeated spaces, and when no word is longer than limit the *)
(* chunks are the words of the paragraph, in order, joined by one space.   *)
(***************************************************************************)
SingleSpaced(chunk) ==
    /\ chunk # <<>>
    /\ chunk[1] # SP
    /\ chunk[Len(chunk)] # SP
    /\ \A i \in 1..(Len(chunk) - 1) : ~(chunk[i] = SP /\ chunk[i + 1] = SP)

RECURSIVE ChunkWords(_)
ChunkWords(chunks) ==
    IF chunks = <<>> THEN <<>>
    ELSE Split(Head(chunks), SP) \o ChunkWords(Tail(chunks))

WordsJoinedByOneSpace ==
    SplitParagraphByWordsReturned =>
        /\ \A i \in 1..Len(inv.ret) : SingleSpaced(inv.ret[i])
        /\ (\A k \in 1..Len(WordsOf(inv.paragraph)) :
                Len(WordsOf(inv.paragraph)[k]) <= inv.maxCharLength)
           => ChunkWords(inv.ret) = WordsOf(inv.paragraph)

\* " a  b " cut at 3: the runs of spaces are gone, one chunk "a b"
WordsJoinedWitness ==
    /\ SplitParagraphByWordsReturned
    /\ inv.maxCharLength = 3
    /\ inv.paragraph = <<SP, "a", SP, SP, "b", SP>>
    /\ inv.ret = << <<"a", SP, "b">> >>

(***************************************************************************)
(* C19: a non-blank paragraph longer than limit is handed to               *)
(* splitParagraphByWords after the pending accumulator, if any, has been   *)
(* pushed; the pieces that come back are pushed as they are and the        *)
(* accumulator is empty afterwards, so no piece is merged with the         *)
(* paragraph before or after; the same holds for the first paragraph.      *)
(***************************************************************************)
LongParagraphStep ==
    LET p   == Head(inv.paragraphs)
        cur == inv.currentParagraphChunk
    IN  /\ (AtParagraph(inv) /\ ~IsBlank(p) /\ Len(p) > inv.maxCharLength) =>
               /\ inv'.pc = "splitParagraphByWords"
               /\ inv'.paragraph = p
               /\ inv'.allChunks =
                      inv.allChunks \o (IF cur # <<>> THEN <<cur>> ELSE <<>>)
        /\ inv.pc \in {"splitParagraphByWords", "forWord", "splitLongWord",
                       "whileCurrentPart", "pushParts"} =>
               inv'.allChunks = inv.allChunks
        /\ SplitParagraphByWordsReturned =>
               /\ inv'.pc = "forParagraph"
               /\ inv'.allChunks = inv.allChunks \o inv.ret
               /\ inv'.currentParagraphChunk = <<>>

LongParagraphPiecesDirect == [][LongParagraphStep]_vars

\* "aaaa\nb" cut at 3: the piece "a" and the paragraph "b" would fit in one
\* chunk and are kept apart
LongParagraphWitness ==
    /\ Done
    /\ inv.maxCharLength = 3
    /\ inv.text = <<"a", "a", "a", "a", NL, "b">>
    /\ inv.result = << <<"a", "a", "a">>, <<"a">>, <<"b">> >>

(***************************************************************************)
(* C20: a blank paragraph met with a non-empty accumulator of length L     *)
(* appends exactly one line break and pushes nothing when L + 1 <= limit,  *)
(* and otherwise pushes the accumulator unchanged and empties it; met with *)
(* an empty accumulator it changes neither the accumulator nor the output. *)
(* The characters of the blank paragraph go nowhere.                       *)
(***************************************************************************)
BlankStep ==
    LET p   == Head(inv.paragraphs)
        cur == inv.currentParagraphChunk
    IN  (AtParagraph(inv) /\ IsBlank(p)) =>
            /\ inv'.pc = "forParagraph"
            /\ IF cur = <<>>
               THEN /\ inv'.currentParagraphChunk = <<>>
                    /\ inv'.allChunks = inv.allChunks
               ELSE IF Len(cur) + 1 <= inv.maxCharLength
                    THEN /\ inv'.currentParagraphChunk = cur \o <<NL>>
                         /\ inv'.allChunks = inv.allChunks
                    ELSE /\ inv'.currentParagraphChunk = <<>>
                         /\ inv'.allChunks = inv.allChunks \o <<cur>>

BlankParagraphEffect == [][BlankStep]_vars

\* "a\n<tab>" with limit 2: the blank line has added a line break, no tab
BlankParagraphWitness ==
    /\ inv.pc = "forParagraph"
    /\ inv.maxCharLength = 2
    /\ inv.text = <<"a", NL, TAB>>
    /\ inv.paragraphs = <<>>
    /\ inv.currentParagraphChunk = <<"a", NL>>
    /\ inv.allChunks = <<>>
(***************************************************************************)
(* C11: when chunkText invocations are interleaved step by step in any     *)
(* order, each invocation returns exactly the sequence it returns when run *)
(* alone, and a step of one invocation leaves the frames of the others as  *)
(* they were.                                                              *)
(***************************************************************************)
ReturnsAsAlone ==
    \A i \in InvocationIds :
        invocations[i].pc = "done" =>
            invocations[i].result =
                ChunkTextOf(invocations[i].text, invocations[i].maxCharLength)

OneFrameTouched ==
    \E i \in InvocationIds :
        \A j \in InvocationIds \ {i} : invocations'[j] = invocations[j]

EmbeddingCalls == SelectSeq(effects, LAMBDA e : e.op = "embedding")

StoredAt == {k \in 1..Len(effects) : effects[k].op = "store" /\ effects[k].ok}

PartialFailureCounted ==
    req.pc = "forChunk" =>
        /\ req.chunks = ChunkTextOf(req.contentToProcess, ChunkLimit)
        /\ Len(EmbeddingCalls) = req.i
        /\ \A k \in 1..req.i : EmbeddingCalls[k].arg = req.chunks[k]
        /\ \A k \in 1..Len(effects) :
               effects[k].op = "store" =>
                   /\ k > 1
                   /\ effects[k - 1] = Effect("embedding", effects[k].arg, TRUE)
        /\ req.successfulEmbeddingsAndStorage = Cardinality(StoredAt)
        /\ req.successfulEmbeddingsAndStorage + req.failedOperations = req.i
        /\ req.i <= Len(req.chunks)

\* "aaa" is cut into "aa" and "a": the embedding of "aa" failed, "a" was
\* embedded and stored, and the loop has ended with one success, one failure
PartialFailureWitness ==
    /\ req.pc = "forChunk"
    /\ req.chunks = << <<"a", "a">>, <<"a">> >>
    /\ req.i = 2
    /\ req.successfulEmbeddingsAndStorage = 1
    /\ req.failedOperations = 1
    /\ EmbeddingCalls = <<Effect("embedding", <<"a", "a">>, FALSE),
                          Effect("embedding", <<"a">>, TRUE)>>

(***************************************************************************)
(* C13: in the chat handler, once the completion service has been called   *)
(* (the query embedding and the context retrieval have succeeded), its     *)
(* failure, an exception or a null, empty or blank answer, is not          *)
(* propagated: the request is answered 200 with one of the fallback        *)
(* messages in the answer field.                                           *)
(***************************************************************************)
CompletionFailed ==
    \E k \in 1..Len(effects) :
        effects[k].op = "completion" /\ ~effects[k].ok

FallbackAnswers == {LlmNoContentAnswer, DefaultAnswer, ErrorAnswer}

CompletionFailureAnswered ==
    (req.pc = "done" /\ CompletionFailed) =>
        /\ req.status = 200
        /\ req.error = ""
        /\ req.llmAnswer \in FallbackAnswers

\* the service threw after embedding and retrieval succeeded
CompletionFailureWitness ==
    /\ req.pc = "done"
    /\ effects = <<Effect("embedding", <<"a">>, TRUE),
                   Effect("retrieve", <<"d">>, TRUE),
                   Effect("completion", <<"a">>, FALSE)>>
    /\ req.status = 200
    /\ req.llmAnswer = ErrorAnswer

(***************************************************************************)
(* C14: in the three handlers no dataset listing, table creation,          *)
(* embedding call, chunk storage, context retrieval or completion call is  *)
(* made unless the request is authenticated and the caller's row in        *)
(* app_users has access_level "admin".  As stated: an unauthenticated      *)
(* request is answered 401 and a non-admin one 403, and a user whose row   *)
(* the request created has "pending_approval" and is answered 403.         *)
(***************************************************************************)
Authenticated == req.userId # NoUserId /\ req.clerkUser

IsAdmin ==
    /\ req.userId \in DOMAIN users
    /\ users[req.userId].access_level = "admin"

Answered == req.pc = "done"

GatedAnswered401Or403 ==
    req.pc # "idle" =>
        /\ effects # <<>> => Authenticated /\ IsAdmin
        /\ (Answered /\ ~Authenticated) => req.status = 401
        /\ (Answered /\ Authenticated /\ ~IsAdmin) => req.status = 403
        /\ req.created =>
               /\ users[req.userId].access_level = "pending_approval"
               /\ Answered => req.status = 403

(***************************************************************************)
(* C14, amended: the answer to a non-admin is 403 once getOrCreateAppUser  *)
(* has returned; when getOrCreateAppUser throws the answer is 500, still   *)
(* without any of the protected calls.                                     *)
(***************************************************************************)
LookupFailed ==
    Answered /\ Authenticated /\ req.appUser.access_level = ""

GatedAnswered401Or403Or500 ==
    req.pc # "idle" =>
        /\ effects # <<>> => Authenticated /\ IsAdmin
        /\ (Answered /\ ~Authenticated) => req.status = 401
        /\ LookupFailed => req.status = 500 /\ effects = <<>>
        /\ (Answered /\ Authenticated /\ ~IsAdmin /\ ~LookupFailed) =>
               req.status = 403
        /\ req.created =>
               /\ users[req.userId].access_level = "pending_approval"
               /\ Answered => req.status = 403

\* the row of u1 was created by the request, which is answered 403
GatedWitness ==
    /\ Answered
    /\ req.userId = "u1"
    /\ req.created
    /\ users["u1"].access_level = "pending_approval"
    /\ req.status = 403
    /\ effects = <<>>
(***************************************************************************)
(* C24: no chunk returned by chunkText begins with a line break, and at    *)
(* every step neither the accumulator nor a chunk collected so far does:   *)
(* leading blank lines and blank lines after a pushed chunk are dropped.   *)
(* A chunk may end with line breaks.                                       *)
(***************************************************************************)
StartsWithLineBreak(chunk) == chunk # <<>> /\ chunk[1] = NL

NoLeadingLineBreak ==
    /\ ~StartsWithLineBreak(inv.currentParagraphChunk)
    /\ \A i \in 1..Len(inv.allChunks) : ~StartsWithLineBreak(inv.allChunks[i])
    /\ \A i \in 1..Len(inv.result) : ~StartsWithLineBreak(inv.result[i])

\* "\na\n\n" with limit 2: the leading blank line is dropped, "a\n" is pushed
\* by the second blank line after "a", and the blank line after it is dropped
NoLeadingLineBreakWitness ==
    /\ Done
    /\ inv.maxCharLength = 2
    /\ inv.text = <<NL, "a", NL, NL>>
    /\ inv.result = << <<"a", NL>> >>
(***************************************************************************)
(* C29: once the import handler has reached the chunk loop, it answers 500 *)
(* "Failed to process and store any content." exactly when chunkText       *)
(* returned at least one chunk and no chunk was both embedded and stored;  *)
(* otherwise it answers 200 with the two counts, also when every chunk but *)
(* one failed.                                                             *)
(***************************************************************************)
ImportAnswerStep ==
    (req.pc = "forChunk" /\ req.i = Len(req.chunks)) =>
        IF Len(req.chunks) > 0 /\ StoredAt = {}
        THEN /\ req'.status = 500
             /\ req'.error = "Failed to process and store any content."
        ELSE /\ req'.status = 200
             /\ req'.error = ""
             /\ req'.successfulEmbeddingsAndStorage = Cardinality(StoredAt)
             /\ req'.failedOperations = Len(req.chunks) - Cardinality(StoredAt)

ImportAnswer == [][ImportAnswerStep]_vars

\* of the two chunks of the content one failed and one was stored: 200
ImportAnswerWitness ==
    /\ req.pc = "done"
    /\ req.handler = "import"
    /\ Len(req.chunks) = 2
    /\ req.successfulEmbeddingsAndStorage = 1
    /\ req.failedOperations = 1
    /\ req.status = 200
(***************************************************************************)
(* C27: no request to the three handlers changes the access_level of an    *)
(* existing app_users row or removes a row: for an existing user           *)
(* getOrCreateAppUser changes at most the email, and a row it creates has  *)
(* "pending_approval", so nobody becomes "admin" through the handlers.     *)
(***************************************************************************)
AccessLevelStep ==
    /\ \A id \in DOMAIN users :
           /\ id \in DOMAIN users'
           /\ users'[id].access_level = users[id].access_level
    /\ \A id \in DOMAIN users' \ DOMAIN users :
           users'[id].access_level = "pending_approval"

AccessLevelKept == [][AccessLevelStep]_vars

\* getOrCreateAppUser has returned the existing row of u1 with the email of
\* the request, the access level as it was
AccessLevelKeptWitness ==
    /\ req.pc = "accessCheck"
    /\ req.userId = "u1"
    /\ ~req.created
    /\ req.email = "e1"
    /\ users["u1"] = [access_level |-> "pending_approval", email |-> "e1"]
    /\ req.appUser = users["u1"]

(***************************************************************************)
(* C22: in the import and chat handlers every statement that puts the      *)
(* dataset name into a table or index name (CREATE TABLE, CREATE INDEX,    *)
(* INSERT, SELECT) runs with the name of the request, which matches        *)
(* ^[a-zA-Z0-9_]+$ and has at most 50 characters; a request whose name     *)
(* fails the check is answered 400 without any call.                       *)
(***************************************************************************)
NamedStatements == {"createTable", "createIndex", "retrieve"}

WellFormedName(name) ==
    /\ name # <<>>
    /\ \A k \in 1..Len(name) : name[k] \in NameChars
    /\ Len(name) <= MaxDatasetNameLength

DatasetNameChecked ==
    req.pc # "idle" =>
        /\ \A k \in 1..Len(effects) :
               /\ effects[k].op \in NamedStatements \cup {"store"} =>
                      WellFormedName(req.datasetName)
               /\ effects[k].op \in NamedStatements =>
                      effects[k].arg = req.datasetName
        /\ (Answered /\ req.datasetName # Null
                     /\ ~WellFormedName(req.datasetName)) =>
               /\ req.status = 400
               /\ effects = <<>>

\* a name of 51 characters, every one accepted by the pattern, is answered
\* 400
DatasetNameCheckedWitness ==
    /\ Answered
    /\ req.handler = "import"
    /\ req.datasetName = TooLongName
    /\ req.status = 400
    /\ effects = <<>>

(***************************************************************************)
(* C23: when a message is submitted in the chat page, the history posted   *)
(* to /api/chat is the last 5 messages of the conversation that precede    *)
(* the submitted message (all of them when there are fewer), the latest    *)
(* AI reply included.                                                      *)
(***************************************************************************)
LastMessages(list, n) == SubSeq(list, Max(Len(list) - n, 0) + 1, Len(list))

\* C23: the request in flight carries the last 5 messages that precede the
\* message whose submission started it
HistoryIsLastFiveBefore ==
    page.mounted /\ page.inFlight # <<>> =>
        page.inFlight[Len(page.inFlight)].history
            = LastMessages(SubSeq(page.messages, 1, Len(page.messages) - 1), 5)

(***************************************************************************)
(* C30: at most one /api/chat request is in flight, isLoading is false     *)
(* again after every request, ok or failed, and the message list           *)
(* alternates user, ai: one ai message (answer or "Error: ...") follows    *)
(* each submitted message before another can be appended.                  *)
(***************************************************************************)
AiTexts == {<<"a">>, <<"E", "r", "r", "o", "r", ":", SP>>}

TurnsAlternate ==
    /\ Len(page.inFlight) <= 1
    /\ page.isLoading <=> page.inFlight # <<>>
    /\ \A i \in 1..Len(page.messages) :
           page.messages[i].sender = IF i % 2 = 1 THEN "user" ELSE "ai"
    /\ page.isLoading <=> Len(page.messages) % 2 = 1

\* while a request is in flight the only change is its settling: one ai
\* message is appended and isLoading is false again
TurnStep ==
    page.isLoading =>
        /\ ~page'.isLoading
        /\ page'.inFlight = <<>>
        /\ Len(page'.messages) = Len(page.messages) + 1
        /\ SubSeq(page'.messages, 1, Len(page.messages)) = page.messages
        /\ page'.messages[Len(page'.messages)].sender = "ai"
        /\ page'.messages[Len(page'.messages)].text \in AiTexts

\* C30: one request at a time, isLoading false after each, the list
\* alternating user, ai
OneTurnAtATime == []TurnsAlternate /\ [][TurnStep]_vars

\* a failed request and an answered one, each followed by its one ai message
OneTurnAtATimeWitness ==
    /\ page.mounted
    /\ ~page.isLoading
    /\ Len(page.messages) = 4
    /\ page.messages[2].text = <<"E", "r", "r", "o", "r", ":", SP>>
    /\ page.messages[4].text = <<"a">>

(***************************************************************************)
(* C21: storing the same (text_chunk, embedding) pair a second time        *)
(* leaves a single row for it in the dataset table.                        *)
(***************************************************************************)
\* C21: the dataset table never holds two rows with the same text_chunk and
\* embedding
PairStoredOnce ==
    \A i, j \in 1..Len(db.dataset) :
        /\ db.dataset[i].text_chunk = db.dataset[j].text_chunk
        /\ db.dataset[i].embedding = db.dataset[j].embedding
        => i = j

(***************************************************************************)
(* C25: concurrent getOrCreateAppUser calls for one clerkUserId execute    *)
(* exactly one INSERT into app_users for it, and no call creates a second  *)
(* row for a user.                                                         *)
(***************************************************************************)
\* C25: at most one call has executed the INSERT for u1, and app_users
\* holds at most one row for u1
UserInsertedOnce ==
    /\ Cardinality({c \in DOMAIN procs :
                        /\ procs[c].fn = "getOrCreateAppUser"
                        /\ procs[c].userId = "u1"
                        /\ procs[c].inserted}) <= 1
    /\ Cardinality({i \in 1..Len(db.app_users) :
                        db.app_users[i].clerk_user_id = "u1"}) <= 1

(***************************************************************************)
(* C26: the pool never reaches a state in which every client is held by a  *)
(* caller that is waiting to obtain a further client.                      *)
(***************************************************************************)
HoldsClient(c) == \E i \in 1..Len(procs[c].clients) : procs[c].clients[i] = 0

\* C26: never are all clients of the pool held by callers waiting in
\* connect()
PoolNeverExhaustedByWaiters ==
    ~ /\ Cardinality({c \in DOMAIN procs : HoldsClient(c)}) = pool.max
      /\ \A c \in DOMAIN procs :
             HoldsClient(c) => procs[c].pc \in {"connect", "register.connect"}

(***************************************************************************)
(* C28: every client obtained with connect() is released exactly once on   *)
(* every path, queries succeeding or throwing, in all seven functions;     *)
(* when all calls have completed no client is checked out.                 *)
(***************************************************************************)
\* C28: no client is released twice, a call that has ended has released
\* each of its clients once, and with all calls ended none is checked out
ClientsReleasedOnce ==
    /\ \A c \in DOMAIN procs : \A i \in 1..Len(procs[c].clients) :
           /\ procs[c].clients[i] <= 1
           /\ procs[c].pc = "done" => procs[c].clients[i] = 1
    /\ (\A c \in DOMAIN procs : procs[c].pc = "done")
           => \A c \in DOMAIN procs : ~HoldsClient(c)

\* an ensureDatasetTableExists that obtained two clients and a storeInNeon
\* whose INSERT threw have both ended
ClientsReleasedOnceWitness ==
    \E c, e \in DOMAIN procs :
        /\ procs[c].fn = "ensureDatasetTableExists"
        /\ procs[c].pc = "done"
        /\ procs[c].clients = <<1, 1>>
        /\ procs[e].fn = "storeInNeon"
        /\ procs[e].pc = "done"
        /\ procs[e].outcome = "threw"
        /\ procs[e].clients = <<1>>

====
